---- MODULE Spec2Model ----
(***************************************************************************)
(* A model of anondb: the document collection layer (anondb), the ordered  *)
(* key-value layer it writes to (anondb-kv) and the journal (src/src).     *)
(*                                                                         *)
(* Four specifications share the module.  Spec drives one collection of   *)
(* one database (insert, find_one, find_many); JournalSpec drives a       *)
(* Journal through journaled write transactions and replays its journal   *)
(* into a second Journal with append_tx; AppendSpec hands the Journal     *)
(* transactions built elsewhere; KvSpec drives one RedbKV through its     *)
(* handle, a write transaction and a read transaction.                    *)
(***************************************************************************)
EXTENDS Integers, Sequences, FiniteSets, TLC

VARIABLES
    schema,     \* which database declaration was opened (index into Schemas)
    kv,         \* the committed tables of the KV: table name -> table
    last,       \* the last collection call and what it returned
    finds,      \* how many find_one and find_many calls were made
    primary,    \* a Journal written through ActiveTransaction: its committed
                \* redb database and its channel of registered transactions
    atx,        \* the ActiveTransaction of the primary, if one is in progress
    replica,    \* a second Journal, empty at first, written through append_tx
    jlast,      \* the last commit, abort or append_tx call and what it returned
    pending,    \* transactions of the primary whose KV commit returned and
                \* whose thread has not reached register_transaction yet
    drained,    \* every transaction drain_transactions returned, in order
    db,         \* a RedbKV: the committed versions of its redb database, the
                \* last one being the current one
    wtx,        \* the RedbWriteTransaction of db, if one is alive
    rtx,        \* a RedbReadTransaction of db, if one is alive
    opened,     \* what every read returned when rtx was opened
    klast,      \* the last write made on the handle or on wtx
    pure,       \* a pure function under evaluation: its arguments and results
    rebuild,    \* a rebuild_indices call in progress: its collection, its
                \* position, the tables before it and the rows left to scan
    cache       \* a read transaction with its cache of opened tables, and the
                \* read_table calls of the threads that share it

dbVars == <<schema, kv, last, finds, rebuild>>
journalVars == <<primary, atx, replica, jlast, pending, drained>>
kvVars == <<db, wtx, rtx, opened, klast>>
pureVars == <<pure>>
vars == <<schema, kv, last, finds, primary, atx, replica, jlast, pending, drained,
          db, wtx, rtx, opened, klast, pure, rebuild, cache>>

----------------------------------------------------------------------------
(* Bounds of the model *)

\* at most this many documents are stored in the collection
MaxDocs == 2
\* at most this many find_one and find_many calls are made in one run
MaxFinds == 1
\* at most this many transactions are committed to the journal
MaxTxs == 2
\* at most this many operations are queued in one journaled transaction
MaxOps == 2
\* this many threads write to the primary journal
MaxThreads == 2
\* at most this many write transactions of the RedbKV commit
MaxKvCommits == 2
\* at most this many writes are made through one write transaction
MaxKvOps == 1

----------------------------------------------------------------------------
(* Bytes and byte strings *)

\* the separator byte pushed by LexicographicKey::append_separator
SEPARATOR == 0
\* the byte pushed by LexicographicKey::append_upper_inclusive_byte
UPPER_INCLUSIVE == 1
\* number of values of one byte: to_be_bytes splits an integer in base 256
ByteBase == 256

\* byte-lexicographic order on byte strings (Vec<u8>::cmp, redb's &[u8] key order)
LexLess(x, y) ==
    \E i \in 1..Len(y) :
        /\ \A j \in 1..(i - 1) : j <= Len(x) /\ x[j] = y[j]
        /\ (i > Len(x) \/ x[i] < y[i])

LexLeq(x, y) == x = y \/ LexLess(x, y)

\* an encoding of u16 that puts the low byte first
SerializeLexU16LittleEndian(v) == << v % ByteBase, v \div ByteBase >>

\* SerializeLexicographic for u16: big-endian bytes
SerializeLexU16(v) == << v \div ByteBase, v % ByteBase >>

\* a value of an encodable type. type is the path of its type constructors
\* (<< "option", "u16" >> is Option<u16>); v is a number for u8 and u16, the
\* base 65536 digits, least significant first, for the wider integers, a
\* BOOLEAN for bool, the UTF-8 bytes for String, the bytes for [u8; N], and
\* for Option<T> the empty sequence (None) or one value of T (Some)
Typed(type, v) == [type |-> type, v |-> v]

\* to_be_bytes of an integer held as digits: the most significant digit first
RECURSIVE ToBeBytes(_)
ToBeBytes(digits) ==
    IF digits = << >> THEN << >>
    ELSE ToBeBytes(Tail(digits)) \o SerializeLexU16(Head(digits))

\* SerializeLexicographic::serialize_lex of Option<T>, String, bool, the
\* unsigned integers and [u8; N]
RECURSIVE SerializeLex(_)
SerializeLex(x) ==
    CASE Head(x.type) = "option" ->
             IF x.v = << >> THEN << 0 >> ELSE << 1 >> \o SerializeLex(x.v[1])
      [] Head(x.type) = "String" -> x.v \o << 0 >>
      [] Head(x.type) = "bool" -> IF x.v THEN << 1 >> ELSE << 0 >>
      [] Head(x.type) = "u8" -> << x.v >>
      [] Head(x.type) = "u16" -> SerializeLexU16(x.v)
      [] Head(x.type) \in {"u32", "u64", "u128"} -> ToBeBytes(x.v)
      [] OTHER -> x.v

\* the encodable types the encoding is driven with, [u8; 2] for the arrays
LexTypes ==
    {<< "u8" >>, << "u16" >>, << "u32" >>, << "u64" >>, << "u128" >>,
     << "bool" >>, << "String" >>, << "array" >>, << "option", "u16" >>,
     << "option", "String" >>, << "option", "option", "bool" >>}

\* the UTF-8 bytes of the characters U+0000, a and e with acute accent
LexChars == {<< 0 >>, << 97 >>, << 195, 169 >>}

\* values of every type of LexTypes, those around the byte boundaries among them
RECURSIVE ValuesOf(_)
ValuesOf(type) ==
    CASE Head(type) = "option" ->
             {Typed(type, << >>)}
                \cup {Typed(type, << v >>) : v \in ValuesOf(Tail(type))}
      [] Head(type) = "String" ->
             {Typed(type, s) : s \in {<< >>} \cup LexChars
                                  \cup {a \o b : a \in LexChars, b \in LexChars}}
      [] Head(type) = "bool" -> {Typed(type, b) : b \in BOOLEAN}
      [] Head(type) = "u8" -> {Typed(type, n) : n \in {0, 1, 127, 128, 255}}
      [] Head(type) = "u16" ->
             {Typed(type, n) : n \in {0, 1, 255, 256, 257, 65535}}
      [] Head(type) = "u32" ->
             {Typed(type, d) : d \in [1..2 -> {0, 1, 256, 65535}]}
      [] Head(type) = "u64" -> {Typed(type, d) : d \in [1..4 -> {0, 1, 256}]}
      [] Head(type) = "u128" -> {Typed(type, d) : d \in [1..8 -> {1, 256}]}
      [] OTHER -> {Typed(type, a) : a \in [1..2 -> {0, 1, 255}]}

\* no pure function is under evaluation
NoCall == [fn |-> "", args |-> << >>, out |-> << >>, done |-> TRUE]

\* LexicographicKey::append_key_slice
AppendKeySlice(bytes, slice) ==
    IF bytes # << >> THEN bytes \o << SEPARATOR >> \o slice ELSE slice

\* LexicographicKey::append_upper_inclusive_byte
AppendUpperInclusiveByte(bytes) == bytes \o << UPPER_INCLUSIVE >>

----------------------------------------------------------------------------
(* Documents *)

Fields == {"id", "a", "b"}
IdVals == {1, 256}
AVals == {1, 256}
BVals == {0, 65535}
Docs == [id : IdVals, a : AVals, b : BVals]

\* rmp_serde::to_vec_named / from_slice of a document
SerializeDoc(d) == << d.id, d.a, d.b >>
DeserializeDoc(bytes) == [id |-> bytes[1], a |-> bytes[2], b |-> bytes[3]]

\* the extractor the derive macro generates for a list of fields
RECURSIVE ExtractFrom(_, _, _, _)
ExtractFrom(names, doc, i, key) ==
    IF i > Len(names) THEN key
    ELSE ExtractFrom(names, doc, i + 1,
                     AppendKeySlice(key, SerializeLexU16(doc[names[i]])))

Extract(names, doc) == ExtractFrom(names, doc, 1, << >>)

----------------------------------------------------------------------------
(* Database declarations *)

\* DB of test/misc.rs and test/unique_index.rs (a compound unique index and a
\* non-unique one), and DB of test/primary_key.rs (a primary key only)
Schemas == <<
    [name |-> "c", primary_key |-> << "id" >>,
     indices |-> << [fields |-> << "a", "b" >>, unique |-> TRUE],
                    [fields |-> << "b" >>, unique |-> FALSE] >>],
    [name |-> "c", primary_key |-> << "id", "a" >>,
     indices |-> << >>] >>

\* Collection::set_primary_key
PrimaryKeyIndex(s) ==
    [collection_name |-> s.name, field_names |-> s.primary_key,
     unique |-> TRUE, full_docs |-> TRUE]

\* the Index values the derive macro hands to Collection::add_index
SecondaryIndex(s, i) ==
    [collection_name |-> s.name, field_names |-> s.indices[i].fields,
     unique |-> s.indices[i].unique, full_docs |-> FALSE]

Indices(s) == [i \in 1..Len(s.indices) |-> SecondaryIndex(s, i)]

RECURSIVE Join(_, _)
Join(names, i) ==
    IF i > Len(names) THEN ""
    ELSE IF i = Len(names) THEN names[i]
    ELSE names[i] \o "_" \o Join(names, i + 1)

\* Index::table_name
TableName(index) ==
    index.collection_name \o "_" \o Join(index.field_names, 1)
        \o (IF index.unique THEN "_unique" ELSE "")

\* every table name a declaration can touch
TableNamesOf(s) ==
    {s.name, TableName(PrimaryKeyIndex(s))}
        \cup {TableName(SecondaryIndex(s, i)) : i \in 1..Len(s.indices)}

AllTableNames == UNION {TableNamesOf(Schemas[n]) : n \in 1..Len(Schemas)}

----------------------------------------------------------------------------
(* The KV: tables of (key, value) rows *)

NoTable == [exists |-> FALSE, multimap |-> FALSE, rows |-> {}]

\* no rebuild_indices call was made
NoRebuild ==
    [s |-> Schemas[1], pc |-> "idle", before |-> [t \in AllTableNames |-> NoTable],
     rows |-> << >>]

\* the threads that share a read transaction, and no read transaction
CacheThreads == {1, 2}
NoCache ==
    [file |-> "", edition |-> 0, snapshot |-> {}, tables |-> {}, readers |-> {},
     pc |-> [t \in CacheThreads |-> "idle"], name |-> [t \in CacheThreads |-> ""],
     out |-> [t \in CacheThreads |-> << >>], calls |-> 0]

\* WriteTransaction::open_table / open_multimap_table: creates a missing table
TxOpen(tx, table, multimap) ==
    IF tx[table].exists THEN tx
    ELSE [tx EXCEPT ![table] = [exists |-> TRUE, multimap |-> multimap, rows |-> {}]]

\* ReadOperations::get
Has(tx, table, key) == \E r \in tx[table].rows : r[1] = key
Get(tx, table, key) == (CHOOSE r \in tx[table].rows : r[1] = key)[2]

\* WriteOperations::insert on a write transaction: the old value is replaced
TxInsert(tx, table, key, value) ==
    LET t == TxOpen(tx, table, FALSE) IN
    [t EXCEPT ![table].rows = {r \in @ : r[1] # key} \cup {<< key, value >>}]

\* WriteOperations::insert_multimap on a write transaction
TxInsertMultimap(tx, table, key, value) ==
    LET t == TxOpen(tx, table, TRUE) IN
    [t EXCEPT ![table].rows = @ \cup {<< key, value >>}]

\* WriteTx::commit: the transaction's tables become the committed ones
TxCommit(committed, tx) == tx

\* a dropped write transaction whose writes stay (what a commit would do)
TxDroppedKeepsWrites(committed, tx) == tx

\* a write transaction dropped without commit: redb aborts it
TxDropped(committed, tx) == committed

----------------------------------------------------------------------------
(* Collection::insert and Index::insert *)

\* an Index::insert that writes no entry
IndexInsertSkipped(tx, index, doc, primary_key) ==
    [ok |-> TRUE, err |-> "", tx |-> tx]

\* Index::insert: the outcome and the write transaction after the call
IndexInsert(tx, index, doc, primary_key) ==
    LET key == Extract(index.field_names, doc)
        table == TableName(index)
    IN  IF index.unique
        THEN IF Has(tx, table, key)
             THEN [ok |-> FALSE, err |-> "uniqueness constraint violated",
                   tx |-> TxOpen(tx, table, FALSE)]
             ELSE [ok |-> TRUE, err |-> "",
                   tx |-> TxInsert(tx, table, key, primary_key)]
        ELSE [ok |-> TRUE, err |-> "",
              tx |-> TxInsertMultimap(tx, table, key, primary_key)]

\* the loop over self.indices() in Collection::insert, stopped by the first error
RECURSIVE InsertIndices(_, _, _, _, _)
InsertIndices(tx, indices, i, doc, primary_key) ==
    IF i > Len(indices) THEN [ok |-> TRUE, err |-> "", tx |-> tx]
    ELSE LET r == IndexInsert(tx, indices[i], doc, primary_key) IN
         IF r.ok THEN InsertIndices(r.tx, indices, i + 1, doc, primary_key)
         ELSE r

\* a primary key check that never finds the key
PrimaryKeyNeverExists(tx, s, primary_key) == FALSE

\* the check of Collection::insert for a stored row with the primary key
PrimaryKeyExists(tx, s, primary_key) == Has(tx, s.name, primary_key)

\* Collection::insert: the outcome and the committed tables after the call
CollectionInsert(committed, s, doc) ==
    LET data == SerializeDoc(doc)
        primary_key == Extract(s.primary_key, doc)
    IN  IF PrimaryKeyExists(committed, s, primary_key)
        THEN [ok |-> FALSE, err |-> "primary key already exists",
              kv |-> TxDropped(committed, TxOpen(committed, s.name, FALSE))]
        ELSE LET tx == TxInsert(committed, s.name, primary_key, data)
                 r == InsertIndices(tx, Indices(s), 1, doc, primary_key)
             IN  IF r.ok
                 THEN [ok |-> TRUE, err |-> "", kv |-> TxCommit(committed, r.tx)]
                 ELSE [ok |-> FALSE, err |-> r.err, kv |-> TxDropped(committed, r.tx)]

\* the documents stored in the primary table of the collection
StoredDocs(tables, s) == {DeserializeDoc(r[2]) : r \in tables[s.name].rows}

----------------------------------------------------------------------------
(* Queries: ParamTyped over field values, Param over encoded bytes *)

Unbounded == [b |-> "Unbounded", v |-> 0]
Included(x) == [b |-> "Included", v |-> x]
Excluded(x) == [b |-> "Excluded", v |-> x]

NoParam == [kind |-> "None", v |-> 0, start |-> Unbounded, end |-> Unbounded, vs |-> {}]
EqP(x) == [NoParam EXCEPT !.kind = "Eq", !.v = x]
NeqP(x) == [NoParam EXCEPT !.kind = "Neq", !.v = x]
RangeP(s, e) == [NoParam EXCEPT !.kind = "Range", !.start = s, !.end = e]
InP(xs) == [NoParam EXCEPT !.kind = "In", !.vs = xs]
NinP(xs) == [NoParam EXCEPT !.kind = "Nin", !.vs = xs]

\* GeneralRange as RangeBounds: RangeBounds::contains
RangeContains(s, e, x) ==
    /\ CASE s.b = "Unbounded" -> TRUE
         [] s.b = "Included" -> s.v <= x
         [] s.b = "Excluded" -> s.v < x
    /\ CASE e.b = "Unbounded" -> TRUE
         [] e.b = "Included" -> x <= e.v
         [] e.b = "Excluded" -> x < e.v

\* ParamTyped::test
Test(p, x) ==
    CASE p.kind = "Eq" -> p.v = x
      [] p.kind = "Range" -> RangeContains(p.start, p.end, x)
      [] p.kind = "Neq" -> p.v # x
      [] p.kind = "In" -> x \in p.vs
      [] p.kind = "Nin" -> x \notin p.vs

\* Queryable::matches as the derive macro generates it: every present
\* parameter is tested against the field of the same name
Matches(doc, q) == \A f \in Fields : q[f].kind = "None" \/ Test(q[f], doc[f])

\* a bound over encoded bytes
EncodeBound(bnd) ==
    IF bnd.b = "Unbounded" THEN [b |-> "Unbounded", v |-> << >>]
    ELSE [b |-> bnd.b, v |-> SerializeLexU16(bnd.v)]

\* From<&ParamTyped<T>> for Param: every value is lexicographically encoded
EncodeParam(p) ==
    [kind |-> p.kind,
     v |-> SerializeLexU16(p.v),
     start |-> EncodeBound(p.start),
     end |-> EncodeBound(p.end),
     vs |-> {SerializeLexU16(x) : x \in p.vs}]

\* the parameters of a query as Index::query and Index::query_compat receive
\* them: encoded, keyed by field name
AllParams(q) == [f \in Fields |-> EncodeParam(q[f])]

\* the fields of the secondary indices of a collection
AllIndexedFields(s) ==
    UNION {{s.indices[i].fields[j] : j \in 1..Len(s.indices[i].fields)} :
              i \in 1..Len(s.indices)}

\* the field extractor the derive macro generates: the parameters of the
\* fields that some secondary index covers
IndexFields(s, q) ==
    [f \in Fields |->
        IF f \in AllIndexedFields(s) THEN EncodeParam(q[f]) ELSE EncodeParam(NoParam)]

----------------------------------------------------------------------------
(* Index::query_compat *)

\* usize::saturating_mul; the scores of the model stay far below usize::MAX
SaturatingMul(x, y) == x * y

\* the loop over field_names: st is (score, is_full_prefix)
RECURSIVE CompatFrom(_, _, _, _)
CompatFrom(names, index_params, i, st) ==
    IF i > Len(names) THEN st
    ELSE LET kind == index_params[names[i]].kind
             is_last_field == (i = Len(names))
             score == st.score + 1
         IN  CASE kind = "None" -> CompatFrom(names, index_params, i + 1, st)
               [] kind = "Eq" ->
                    CompatFrom(names, index_params, i + 1,
                               [st EXCEPT !.score = SaturatingMul(score, 10)])
               [] kind = "In" ->
                    CompatFrom(names, index_params, i + 1,
                               [st EXCEPT !.score = SaturatingMul(score, 8)])
               [] kind = "Range" ->
                    [score |-> SaturatingMul(score, 5),
                     is_full_prefix |-> st.is_full_prefix /\ is_last_field]
               [] kind \in {"Neq", "Nin"} ->
                    [score |-> SaturatingMul(score, 2),
                     is_full_prefix |-> st.is_full_prefix /\ is_last_field]

QueryCompat(index, index_params) ==
    LET st == CompatFrom(index.field_names, index_params, 1,
                         [score |-> 0, is_full_prefix |-> TRUE])
    IN  IF st.is_full_prefix THEN SaturatingMul(st.score, 10000) ELSE st.score

----------------------------------------------------------------------------
(* Index::query: the planner *)

UnboundedKey == [b |-> "Unbounded", v |-> << >>]
IncludedKey(bytes) == [b |-> "Included", v |-> bytes]
ExcludedKey(bytes) == [b |-> "Excluded", v |-> bytes]

\* the state before the loop over field_names
PlanStart ==
    [min_key |-> << >>, min_bound |-> UnboundedKey, max_bound |-> UnboundedKey,
     panic |-> FALSE]

\* the arm for a field the query does not constrain, and for Neq and Nin
PlanPrefixOnly(st) ==
    IF st.min_key # << >>
    THEN [st EXCEPT !.min_bound = IncludedKey(st.min_key),
                    !.max_bound = IncludedKey(AppendUpperInclusiveByte(st.min_key)),
                    !.min_key = << >>]
    ELSE st

\* the match on v.start_bound() of the Range arm; min_key.take() empties min_key
PlanRangeStart(st, start) ==
    CASE start.b = "Unbounded" ->
            IF st.min_key # << >>
            THEN [st EXCEPT !.min_bound = IncludedKey(st.min_key), !.min_key = << >>]
            ELSE st
      [] start.b = "Included" ->
            [st EXCEPT !.min_bound = IncludedKey(AppendKeySlice(st.min_key, start.v)),
                       !.min_key = << >>]
      [] start.b = "Excluded" ->
            [st EXCEPT !.min_bound = ExcludedKey(AppendKeySlice(st.min_key, start.v)),
                       !.min_key = << >>]

\* the match on v.end_bound() of the Range arm; max_key starts as a clone of
\* min_key as the start arm left it
PlanRangeEnd(st, end) ==
    LET max_key == st.min_key IN
    CASE end.b = "Unbounded" ->
            [st EXCEPT !.max_bound = IncludedKey(AppendUpperInclusiveByte(max_key))]
      [] end.b = "Included" ->
            [st EXCEPT !.max_bound =
                IncludedKey(AppendUpperInclusiveByte(AppendKeySlice(max_key, end.v)))]
      [] end.b = "Excluded" ->
            [st EXCEPT !.max_bound =
                ExcludedKey(AppendUpperInclusiveByte(AppendKeySlice(max_key, end.v)))]

\* the loop over field_names
RECURSIVE PlanFrom(_, _, _, _)
PlanFrom(names, index_fields, i, st) ==
    IF i > Len(names) THEN st
    ELSE LET p == index_fields[names[i]] IN
         CASE p.kind = "Eq" ->
                PlanFrom(names, index_fields, i + 1,
                         [st EXCEPT !.min_key = AppendKeySlice(st.min_key, p.v)])
           [] p.kind = "In" -> [st EXCEPT !.panic = TRUE]
           [] p.kind \in {"Neq", "Nin"} -> PlanPrefixOnly(st)
           [] p.kind = "Range" -> PlanRangeEnd(PlanRangeStart(st, p.start), p.end)
           [] p.kind = "None" -> PlanPrefixOnly(st)

\* the scan range Index::query plans for the parameters it is given
Plan(index, index_fields) == PlanFrom(index.field_names, index_fields, 1, PlanStart)

\* RangeBounds::contains on byte strings: the keys a redb range scan visits
KeyInRange(plan, key) ==
    /\ CASE plan.min_bound.b = "Unbounded" -> TRUE
         [] plan.min_bound.b = "Included" -> LexLeq(plan.min_bound.v, key)
         [] plan.min_bound.b = "Excluded" -> LexLess(plan.min_bound.v, key)
    /\ CASE plan.max_bound.b = "Unbounded" -> TRUE
         [] plan.max_bound.b = "Included" -> LexLeq(key, plan.max_bound.v)
         [] plan.max_bound.b = "Excluded" -> LexLess(key, plan.max_bound.v)

\* a table scan that runs from the last row to the first
RowLeqReversed(r, s) == LexLess(s[1], r[1]) \/ (r[1] = s[1] /\ LexLeq(s[2], r[2]))

\* the order of a table scan: by key, and by value inside one multimap key
RowLeq(r, s) == LexLess(r[1], s[1]) \/ (r[1] = s[1] /\ LexLeq(r[2], s[2]))

RECURSIVE SortRows(_)
SortRows(rows) ==
    IF rows = {} THEN << >>
    ELSE LET m == CHOOSE r \in rows : \A s \in rows : RowLeq(r, s) IN
         << m >> \o SortRows(rows \ {m})

\* ReadOperations::range and range_multimap: a missing table scans as empty,
\* and a range whose start lies after its end visits nothing
Range(tables, table, plan) ==
    SortRows({r \in tables[table].rows : KeyInRange(plan, r[1])})

----------------------------------------------------------------------------
(* Index::query: the scan *)

\* the document bytes the selector loads for one scanned row
RowResolves(tables, index, row) ==
    (index.unique /\ index.full_docs) \/ Has(tables, index.collection_name, row[2])

RowDocBytes(tables, index, row) ==
    IF index.unique /\ index.full_docs THEN row[2]
    ELSE Get(tables, index.collection_name, row[2])

RECURSIVE SelectDocs(_, _, _, _, _)
SelectDocs(tables, index, rows, i, q) ==
    IF i > Len(rows) THEN << >>
    ELSE LET doc == DeserializeDoc(RowDocBytes(tables, index, rows[i])) IN
         (IF Matches(doc, q) THEN << doc >> ELSE << >>)
            \o SelectDocs(tables, index, rows, i + 1, q)

\* Index::query
IndexQuery(tables, index, q, index_fields) ==
    LET plan == Plan(index, index_fields)
        rows == Range(tables, TableName(index), plan)
    IN  IF plan.panic
        THEN [ok |-> FALSE, err |-> "panic: not implemented", out |-> << >>]
        ELSE IF \E i \in 1..Len(rows) : ~RowResolves(tables, index, rows[i])
        THEN [ok |-> FALSE, err |-> "referencing primary key that does not exist",
              out |-> << >>]
        ELSE [ok |-> TRUE, err |-> "", out |-> SelectDocs(tables, index, rows, 1, q)]

----------------------------------------------------------------------------
(* Collection::find_many and Collection::find_one *)

\* the BTreeMap from score to index both functions fill from self.indices():
\* a later index replaces an earlier one with the same score, and
\* last_key_value is the entry with the highest score
HasBestIndex(s) == Len(s.indices) > 0

BestIndex(s, index_params) ==
    LET indices == Indices(s)
        score(i) == QueryCompat(indices[i], index_params)
        top == CHOOSE i \in 1..Len(indices) :
                 \A j \in 1..Len(indices) :
                    score(j) < score(i) \/ (score(j) = score(i) /\ j <= i)
    IN  indices[top]

\* Collection::find_many
FindMany(tables, s, q) ==
    IF ~HasBestIndex(s)
    THEN [ok |-> FALSE, err |-> "no index found", out |-> << >>]
    ELSE IndexQuery(tables, BestIndex(s, IndexFields(s, q)), q, IndexFields(s, q))

\* Collection::find_one
FindOne(tables, s, q) ==
    IF ~HasBestIndex(s)
    THEN [ok |-> FALSE, err |-> "panic: no index found!", out |-> << >>]
    ELSE LET r == IndexQuery(tables, BestIndex(s, IndexFields(s, q)), q,
                             IndexFields(s, q))
         IN
         IF r.ok /\ Len(r.out) > 0 THEN [r EXCEPT !.out = << r.out[1] >>] ELSE r

----------------------------------------------------------------------------
(* The journal: transactions, their encoding and their hash *)

\* the user tables, keys and values the journaled transactions of the model use
JTables == {"t", "u"}
JKeys == {<< 1 >>}
JValues == {<< 1 >>, << 2 >>}

\* TransactionOperation
NoOp == [op |-> "Commit", table |-> "", new |-> "", key |-> << >>, value |-> << >>]
OpCommit == NoOp
OpOpenTable(t) == [NoOp EXCEPT !.op = "OpenTable", !.table = t]
OpInsert(t, k, v) == [NoOp EXCEPT !.op = "Insert", !.table = t, !.key = k, !.value = v]
OpRemove(t, k) == [NoOp EXCEPT !.op = "Remove", !.table = t, !.key = k]
OpRenameTable(old, new) == [NoOp EXCEPT !.op = "RenameTable", !.table = old, !.new = new]
OpDeleteTable(t) == [NoOp EXCEPT !.op = "DeleteTable", !.table = t]

\* <[u8; 32]>::default()
ZeroHash == << >>

\* Bytes::encode and Bytes::parse of a JournalTransaction
Encode(tx) == << tx.last_tx_hash, tx.operations >>
Parse(bytes) == [last_tx_hash |-> bytes[1], operations |-> bytes[2]]

\* JournalTransaction::hash: blake3 of the encoding, taken as collision free
Hash(tx) == << "blake3", Encode(tx) >>

NoJournalTx == [last_tx_hash |-> ZeroHash, operations |-> << >>]

\* a redb table as a set of (key, value) rows with one row per key
MapHas(rows, k) == \E r \in rows : r[1] = k
MapGet(rows, k) == (CHOOSE r \in rows : r[1] = k)[2]
MapInsertSkipped(rows, k, v) == rows
MapInsert(rows, k, v) == {r \in rows : r[1] # k} \cup {<< k, v >>}
MapRemove(rows, k) == {r \in rows : r[1] # k}

NoJTable == [exists |-> FALSE, rows |-> {}]

\* Journal::in_memory(None): no table, an empty channel
EmptyJournal ==
    [tables |-> [t \in JTables |-> NoJTable], journal |-> {}, txs |-> {},
     transactions |-> << >>]

\* a get_state that counts the journal but always reports the zero hash
GetStateForgetsHash(j) ==
    [ok |-> TRUE, next_tx_index |-> Cardinality(j.journal), last_tx_hash |-> ZeroHash]

\* a get_state that misses the newest journal entry, as a read taken before
\* another thread's commit would
GetStateOneBehind(j) ==
    LET n == Cardinality(j.journal) IN
    [ok |-> TRUE,
     next_tx_index |-> IF n > 0 THEN n - 1 ELSE 0,
     last_tx_hash |-> IF n > 1 /\ MapHas(j.journal, n - 2)
                      THEN MapGet(j.journal, n - 2) ELSE ZeroHash]

\* Journal::get_state, on the committed database
GetState(j) ==
    LET next_tx_index == Cardinality(j.journal) IN
    IF next_tx_index > 0
    THEN IF MapHas(j.journal, next_tx_index - 1)
         THEN [ok |-> TRUE, next_tx_index |-> next_tx_index,
               last_tx_hash |-> MapGet(j.journal, next_tx_index - 1)]
         ELSE [ok |-> FALSE, next_tx_index |-> next_tx_index,
               last_tx_hash |-> ZeroHash]
    ELSE [ok |-> TRUE, next_tx_index |-> 0, last_tx_hash |-> ZeroHash]

\* Journal::journal_tx_by_index
HasJournalTx(j, index) ==
    MapHas(j.journal, index) /\ MapHas(j.txs, MapGet(j.journal, index))
JournalTxByIndex(j, index) == Parse(MapGet(j.txs, MapGet(j.journal, index)))

----------------------------------------------------------------------------
(* ActiveTransaction and JournaledTable *)

\* an ActiveTransaction whose write transaction is gone
NoTx == [active |-> FALSE, tables |-> EmptyJournal.tables, ops |-> << >>, open |-> {}]

\* ActiveTransaction::new: a write transaction on the committed tables
TxNew(j) == [active |-> TRUE, tables |-> j.tables, ops |-> << >>, open |-> {}]

\* ActiveTransaction::open_table: redb refuses a table that is already open
\* and creates a missing one; the operation is sent after redb succeeded
CanOpenTable(a, t) == a.active /\ t \notin a.open
TxOpenTable(a, t) ==
    [a EXCEPT !.tables[t].exists = TRUE,
              !.ops = Append(@, OpOpenTable(t)),
              !.open = @ \cup {t}]

\* JournaledTable::insert_bytes and remove_bytes, through an open handle
CanWrite(a, t) == a.active /\ t \in a.open
TxInsertBytes(a, t, k, v) ==
    [a EXCEPT !.tables[t].rows = MapInsert(@, k, v),
              !.ops = Append(@, OpInsert(t, k, v))]
TxRemoveBytesUnrecorded(a, t, k) == [a EXCEPT !.tables[t].rows = MapRemove(@, k)]
TxRemoveBytes(a, t, k) ==
    [a EXCEPT !.tables[t].rows = MapRemove(@, k),
              !.ops = Append(@, OpRemove(t, k))]

\* ActiveTransaction::rename_table: redb refuses a missing or open source and
\* an existing destination
CanRenameTable(a, old, new) ==
    /\ a.active
    /\ a.tables[old].exists
    /\ old \notin a.open
    /\ ~a.tables[new].exists
TxRenameTable(a, old, new) ==
    [a EXCEPT !.tables[new] = a.tables[old],
              !.tables[old] = NoJTable,
              !.ops = Append(@, OpRenameTable(old, new))]

\* ActiveTransaction::delete_table: redb refuses an open table; deleting a
\* missing table returns false and is recorded all the same
CanDeleteTable(a, t) == a.active /\ t \notin a.open
TxDeleteTable(a, t) ==
    [a EXCEPT !.tables[t] = NoJTable,
              !.ops = Append(@, OpDeleteTable(t))]

\* a write transaction that is dropped and yet leaves its table writes behind
TxAbortKeepsWrites(j, a) == [j EXCEPT !.tables = a.tables]

\* the committed database after the write transaction of a is dropped without
\* a commit (ActiveTransaction::abort, or an early return): redb rolls it back
TxAbortJournal(j, a) == j

\* a commit that persists the table writes without the journal entry
TxCommitKvWithoutRecord(j, a) ==
    [ok |-> TRUE, err |-> "",
     tx |-> [last_tx_hash |-> GetState(j).last_tx_hash,
             operations |-> Append(a.ops, OpCommit)],
     j |-> [j EXCEPT !.tables = a.tables]]

\* ActiveTransaction::commit up to and with tx.commit(): the outcome and the
\* committed database after; the channel of the journal is not touched yet
TxCommitKv(j, a) ==
    LET operations == Append(a.ops, OpCommit)
        state == GetState(j)
        journal_tx == [last_tx_hash |-> state.last_tx_hash, operations |-> operations]
        tx_hash == Hash(journal_tx)
    IN  IF ~a.active
        THEN [ok |-> FALSE, err |-> "no active write transaction",
              tx |-> NoJournalTx, j |-> j]
        ELSE IF ~state.ok
        THEN [ok |-> FALSE, err |-> "unable to find hash for latest tx index",
              tx |-> NoJournalTx, j |-> TxAbortJournal(j, a)]
        ELSE [ok |-> TRUE, err |-> "", tx |-> journal_tx,
              j |-> [tables |-> a.tables,
                     journal |-> MapInsert(j.journal, state.next_tx_index, tx_hash),
                     txs |-> MapInsert(j.txs, tx_hash, Encode(journal_tx)),
                     transactions |-> j.transactions]]

\* Journal::register_transaction: send on the channel of the journal
RegisterTransaction(j, tx) == [j EXCEPT !.transactions = Append(@, tx)]

\* Journal::drain_transactions: what it returns, and the journal after
DrainTransactions(j) == [out |-> j.transactions, j |-> [j EXCEPT !.transactions = << >>]]

\* ActiveTransaction::commit on journal j, run without another thread in
\* between: the outcome and the journal after
TxCommitJournal(j, a) ==
    LET r == TxCommitKv(j, a) IN
    IF r.ok THEN [r EXCEPT !.j = RegisterTransaction(r.j, r.tx)] ELSE r

----------------------------------------------------------------------------
(* Journal::append_tx *)

\* the loop over operations[..len - 1]: a is the ActiveTransaction the
\* operations are replayed on, tables_by_name the names of the handles held
RECURSIVE ReplayFrom(_, _, _, _)
ReplayFrom(a, tables_by_name, operations, i) ==
    IF i > Len(operations) - 1 THEN [ok |-> TRUE, err |-> "", a |-> a]
    ELSE LET o == operations[i]
             closed == [a EXCEPT !.open = @ \ {o.table}]
         IN
         CASE o.op = "OpenTable" ->
                IF o.table \in tables_by_name
                THEN ReplayFrom(a, tables_by_name, operations, i + 1)
                ELSE IF CanOpenTable(a, o.table)
                THEN ReplayFrom(TxOpenTable(a, o.table),
                                tables_by_name \cup {o.table}, operations, i + 1)
                ELSE [ok |-> FALSE, err |-> "redb: table already open", a |-> a]
           [] o.op = "Insert" ->
                IF o.table \in tables_by_name
                THEN ReplayFrom(TxInsertBytes(a, o.table, o.key, o.value),
                                tables_by_name, operations, i + 1)
                ELSE [ok |-> FALSE, err |-> "table is not open", a |-> a]
           [] o.op = "Remove" ->
                IF o.table \in tables_by_name
                THEN ReplayFrom(TxRemoveBytes(a, o.table, o.key),
                                tables_by_name, operations, i + 1)
                ELSE [ok |-> FALSE, err |-> "table is not open", a |-> a]
           [] o.op = "RenameTable" ->
                IF CanRenameTable(closed, o.table, o.new)
                THEN ReplayFrom(TxRenameTable(closed, o.table, o.new),
                                tables_by_name \ {o.table}, operations, i + 1)
                ELSE [ok |-> FALSE, err |-> "redb: rename refused", a |-> closed]
           [] o.op = "DeleteTable" ->
                IF CanDeleteTable(closed, o.table)
                THEN ReplayFrom(TxDeleteTable(closed, o.table),
                                tables_by_name \ {o.table}, operations, i + 1)
                ELSE [ok |-> FALSE, err |-> "redb: table already open", a |-> closed]
           [] o.op = "Commit" ->
                [ok |-> FALSE, err |-> "commit operation must be final operation",
                 a |-> a]
           [] OTHER -> [ok |-> FALSE, err |-> "panic: not implemented", a |-> a]

\* an append_tx that accepts any last_tx_hash
NeverDivergent(state, tx) == FALSE

\* the check of last_tx_hash against the state of the journal
DivergentLastTxHash(state, tx) == state.last_tx_hash # tx.last_tx_hash

\* an append_tx that accepts any list of operations
ShapeAlwaysOk(operations) == ""

\* the checks on the shape of the operations: the error, or "" when they pass
ShapeError(operations) ==
    IF operations = << >> THEN "cannot apply empty transaction"
    ELSE IF operations[Len(operations)] # OpCommit
    THEN "cannot apply transaction without final operation being commit"
    ELSE ""

\* Journal::append_tx on journal j: the outcome and the journal after.  A
\* call that bails drops its write transaction.
AppendTx(j, tx) ==
    LET state == GetState(j)
        failed(err, a) ==
            [ok |-> FALSE, err |-> err, tx |-> NoJournalTx, j |-> TxAbortJournal(j, a)]
    IN  IF ~state.ok THEN failed("unable to find hash for latest tx index", TxNew(j))
        ELSE IF DivergentLastTxHash(state, tx)
        THEN failed("cannot apply transaction to divergent last_tx_hash", TxNew(j))
        ELSE IF ShapeError(tx.operations) # ""
        THEN failed(ShapeError(tx.operations), TxNew(j))
        ELSE LET r == ReplayFrom(TxNew(j), {}, tx.operations, 1) IN
             IF ~r.ok THEN failed(r.err, r.a)
             ELSE TxCommitJournal(j, [r.a EXCEPT !.open = {}])

----------------------------------------------------------------------------
(* RedbKV: its handle, write transaction and read transaction *)

\* the keys and values the RedbKV is driven with
KvKeys == {<< 1 >>, << 2 >>}
KvValues == {<< 7 >>, << 8 >>}

\* one call of ReadOperations or WriteOperations
KvCall(op, table, key, value, range) ==
    [op |-> op, table |-> table, key |-> key, value |-> value, range |-> range]

\* the range .. of every key
NoRange == [min_bound |-> UnboundedKey, max_bound |-> UnboundedKey]

\* the reads of ReadOperations: table "t" is read through the single valued
\* methods and table "m" through the multimap ones
KvReads ==
    {KvCall("count", "t", << >>, << >>, NoRange),
     KvCall("count_multimap", "m", << >>, << >>, NoRange)}
      \cup {KvCall("get", "t", k, << >>, NoRange) : k \in KvKeys}
      \cup {KvCall("get_multimap", "m", k, << >>, NoRange) : k \in KvKeys}
      \cup {KvCall(op[1], op[2], << >>, << >>, r) :
                op \in {<< "range", "t" >>, << "range_multimap", "m" >>},
                r \in {NoRange,
                       [NoRange EXCEPT !.min_bound = IncludedKey(<< 2 >>)]}}

\* the writes of WriteOperations
KvWrites ==
    {KvCall("clear", "t", << >>, << >>, NoRange),
     KvCall("clear_multimap", "m", << >>, << >>, NoRange)}
      \cup {KvCall("insert", "t", k, v, NoRange) : k \in KvKeys, v \in KvValues}
      \cup {KvCall("remove", "t", k, << >>, NoRange) : k \in KvKeys}
      \cup {KvCall("insert_multimap", "m", k, v, NoRange) :
                k \in KvKeys, v \in KvValues}
      \cup {KvCall("remove_multimap", "m", k, v, NoRange) :
                k \in KvKeys, v \in KvValues}
      \cup {KvCall("remove_all_multimap", "m", k, << >>, NoRange) : k \in KvKeys}

\* RedbKV::in_memory(None): a database without tables
InMemory == << [t \in {"t", "m"} |-> NoTable] >>

\* a read transaction that follows the commits made after it began
SnapshotFollowsCommits(database, read) == database[Len(database)]

\* redb::ReadTransaction: the tables as they were committed when begin_read
\* was called
Snapshot(database, read) == database[read]

NoReadTx ==
    [open |-> FALSE, read |-> 1, tables |-> {}, multimap_tables |-> {}]

\* RedbKV::read_tx
ReadTx(database) ==
    [open |-> TRUE, read |-> Len(database), tables |-> {},
     multimap_tables |-> {}]

\* RedbReadTransaction::read_table and read_multimap_table: the table of the
\* snapshot, None for a table the snapshot does not have; a table that was
\* opened stays in the cache of the read transaction, with the rows of the
\* same snapshot
ReadTable(database, tx, name, multimap) ==
    LET table == Snapshot(database, tx.read)[name] IN
    [some |-> table.exists, table |-> table,
     tx |-> IF ~table.exists THEN tx
            ELSE IF multimap THEN [tx EXCEPT !.multimap_tables = @ \cup {name}]
            ELSE [tx EXCEPT !.tables = @ \cup {name}]]

\* ReadOperations for RedbReadTransaction: what the call returns and the
\* read transaction after it
RtxRead(database, tx, call) ==
    LET r == ReadTable(database, tx, call.table,
                       call.op \notin {"count", "get", "range"})
        at == SortRows({row \in r.table.rows : row[1] = call.key})
    IN  [tx |-> r.tx,
         out |-> CASE call.op \in {"count", "count_multimap"} ->
                          << Cardinality(r.table.rows) >>
                   [] call.op = "get" -> [i \in 1..Len(at) |-> at[i][2]]
                   [] call.op = "get_multimap" -> at
                   [] OTHER -> SortRows({row \in r.table.rows :
                                            KeyInRange(call.range, row[1])})]

\* ReadOperations for RedbKV: a read transaction begun for the one read.
\* count and get go through its read_table; get_multimap, range and
\* range_multimap open the table of the redb transaction themselves and
\* return its error for a table that does not exist
HandleRead(database, call) ==
    LET tx == ReadTx(database)
        ok == \/ call.op \in {"count", "get", "count_multimap"}
              \/ Snapshot(database, tx.read)[call.table].exists
    IN  [ok |-> ok,
         out |-> IF ok THEN RtxRead(database, tx, call).out ELSE << >>]

NoWriteTx == [active |-> FALSE, tables |-> InMemory[1], ops |-> 0]

\* WriteOperations for RedbWriteTransaction: the tables of the transaction
\* after the call; open_table creates a missing table, clear deletes it
TxWrite(tables, call) ==
    LET t == TxOpen(tables, call.table,
                    call.op \notin {"insert", "remove", "clear"})
    IN  CASE call.op = "insert" ->
                 TxInsert(tables, call.table, call.key, call.value)
          [] call.op = "insert_multimap" ->
                 TxInsertMultimap(tables, call.table, call.key, call.value)
          [] call.op = "remove_multimap" ->
                 [t EXCEPT ![call.table].rows = @ \ {<< call.key, call.value >>}]
          [] call.op \in {"remove", "remove_all_multimap"} ->
                 [t EXCEPT ![call.table].rows = {r \in @ : r[1] # call.key}]
          [] OTHER -> [tables EXCEPT ![call.table] = NoTable]

\* ReadOperations for RedbWriteTransaction: open_table and
\* open_multimap_table of the write transaction create a table that does not
\* exist; len, get and range are then those of redb on the transaction's rows
WtxRead(tables, call) ==
    LET t == TxOpen(tables, call.table, call.op \notin {"count", "get", "range"})
    IN  [tables |-> t, out |-> RtxRead(<< t >>, ReadTx(<< t >>), call).out]

\* WriteOperations for RedbKV: a write transaction is begun for the one
\* write and goes out of scope when the method returns
HandleWrite(database, call) ==
    TxDropped(database[Len(database)], TxWrite(database[Len(database)], call))

KvOpened ==
    [surface |-> "handle", call |-> KvCall("in_memory", "", << >>, << >>, NoRange)]

----------------------------------------------------------------------------
(* The collection specification *)

NoDoc == [id |-> 0, a |-> 0, b |-> 0]

\* jlast before any call
JournalOpened ==
    [op |-> "open", tx |-> NoJournalTx, ok |-> TRUE, err |-> "", index_before |-> 0]

\* the query with no parameter, and a query with one more parameter
EmptyQuery == [f \in Fields |-> NoParam]
With(q, f, p) == [q EXCEPT ![f] = p]

\* the five range shapes a GeneralRange is built from (a..b, a..=b, a.., ..b,
\* ..=b), with endpoints in vals and the start not after the end
RangeParams(vals) ==
    {RangeP(Included(p[1]), Excluded(p[2])) : p \in {x \in vals \X vals : x[1] <= x[2]}}
      \cup {RangeP(Included(p[1]), Included(p[2])) :
                p \in {x \in vals \X vals : x[1] <= x[2]}}
      \cup {RangeP(Included(s), Unbounded) : s \in vals}
      \cup {RangeP(Unbounded, Excluded(e)) : e \in vals}
      \cup {RangeP(Unbounded, Included(e)) : e \in vals}

\* the queries the model issues
Queries ==
    {EmptyQuery}
      \cup {With(EmptyQuery, "id", EqP(v)) : v \in IdVals}
      \cup {With(EmptyQuery, "a", EqP(v)) : v \in AVals}
      \cup {With(EmptyQuery, "b", EqP(v)) : v \in BVals}
      \cup {With(With(EmptyQuery, "a", EqP(v)), "b", EqP(w)) : v \in AVals, w \in BVals}
      \cup {With(With(EmptyQuery, "id", EqP(v)), "a", EqP(w)) : v \in IdVals, w \in AVals}
      \cup {With(EmptyQuery, "a", p) : p \in RangeParams(AVals)}
      \cup {With(EmptyQuery, "b", p) : p \in RangeParams(BVals)}
      \cup {With(With(EmptyQuery, "a", EqP(v)), "b", p) :
                v \in AVals, p \in RangeParams(BVals)}

Init ==
    /\ schema \in 1..Len(Schemas)
    /\ kv = [t \in AllTableNames |-> NoTable]
    /\ last = [op |-> "open", doc |-> NoDoc, query |-> EmptyQuery,
               ok |-> TRUE, err |-> "", out |-> << >>]
    /\ finds = 0
    /\ primary = EmptyJournal
    /\ atx = NoTx
    /\ replica = EmptyJournal
    /\ jlast = JournalOpened
    /\ pending = {}
    /\ drained = << >>
    /\ db = InMemory
    /\ wtx = NoWriteTx
    /\ rtx = NoReadTx
    /\ opened = [c \in KvReads |-> RtxRead(InMemory, NoReadTx, c).out]
    /\ klast = KvOpened
    /\ pure = NoCall
    /\ cache = NoCache
    /\ rebuild = NoRebuild

\* collection.insert(doc)
Insert ==
    \E doc \in Docs :
        LET r == CollectionInsert(kv, Schemas[schema], doc) IN
        /\ Cardinality(r.kv[Schemas[schema].name].rows) <= MaxDocs
        /\ kv' = r.kv
        /\ last' = [op |-> "insert", doc |-> doc, query |-> EmptyQuery,
                    ok |-> r.ok, err |-> r.err, out |-> << >>]
        /\ UNCHANGED << schema, finds, rebuild >>
        /\ UNCHANGED << journalVars, kvVars, pureVars, cache >>

\* collection.find_many(query)
FindManyCall ==
    \E q \in Queries :
        LET r == FindMany(kv, Schemas[schema], q) IN
        /\ finds < MaxFinds
        /\ finds' = finds + 1
        /\ last' = [op |-> "find_many", doc |-> NoDoc, query |-> q,
                    ok |-> r.ok, err |-> r.err, out |-> r.out]
        /\ UNCHANGED << schema, kv, rebuild >>
        /\ UNCHANGED << journalVars, kvVars, pureVars, cache >>

\* collection.find_one(query)
FindOneCall ==
    \E q \in Queries :
        LET r == FindOne(kv, Schemas[schema], q) IN
        /\ finds < MaxFinds
        /\ finds' = finds + 1
        /\ last' = [op |-> "find_one", doc |-> NoDoc, query |-> q,
                    ok |-> r.ok, err |-> r.err, out |-> r.out]
        /\ UNCHANGED << schema, kv, rebuild >>
        /\ UNCHANGED << journalVars, kvVars, pureVars, cache >>

Next == Insert \/ FindManyCall \/ FindOneCall

Spec == Init /\ [][Next]_vars

\* the non-empty lists of values an In parameter carries
InLists(vals) == (SUBSET vals) \ {{}}

\* queries with an In parameter on a field, alone or next to an Eq or a
\* Range on another field
InQueries ==
    {With(EmptyQuery, "a", InP(vs)) : vs \in InLists(AVals)}
      \cup {With(EmptyQuery, "b", InP(vs)) : vs \in InLists(BVals)}
      \cup {With(With(EmptyQuery, "a", EqP(v)), "b", InP(ws)) :
                v \in AVals, ws \in InLists(BVals)}
      \cup {With(With(EmptyQuery, "a", InP(vs)), "b", EqP(w)) :
                vs \in InLists(AVals), w \in BVals}
      \cup {With(With(EmptyQuery, "a", p), "b", InP(ws)) :
                p \in RangeParams(AVals), ws \in InLists(BVals)}

\* collection.find_many(query) with an In parameter in the query
FindManyIn ==
    \E q \in InQueries :
        LET r == FindMany(kv, Schemas[schema], q) IN
        /\ finds < MaxFinds
        /\ finds' = finds + 1
        /\ last' = [op |-> "find_many", doc |-> NoDoc, query |-> q,
                    ok |-> r.ok, err |-> r.err, out |-> r.out]
        /\ UNCHANGED << schema, kv, rebuild >>
        /\ UNCHANGED << journalVars, kvVars, pureVars, cache >>

InNext == Insert \/ FindManyIn

InSpec == Init /\ [][InNext]_vars

----------------------------------------------------------------------------
(* The journal specification *)

JInit ==
    /\ schema = 1
    /\ kv = [t \in AllTableNames |-> NoTable]
    /\ last = [op |-> "open", doc |-> NoDoc, query |-> EmptyQuery,
               ok |-> TRUE, err |-> "", out |-> << >>]
    /\ finds = 0
    /\ primary = EmptyJournal
    /\ atx = NoTx
    /\ replica = EmptyJournal
    /\ jlast = JournalOpened
    /\ pending = {}
    /\ drained = << >>
    /\ db = InMemory
    /\ wtx = NoWriteTx
    /\ rtx = NoReadTx
    /\ opened = [c \in KvReads |-> RtxRead(InMemory, NoReadTx, c).out]
    /\ klast = KvOpened
    /\ pure = NoCall
    /\ cache = NoCache
    /\ rebuild = NoRebuild

\* operation lists of transactions that reach append_tx from outside: ill
\* formed ones, one that applies, and ones whose replay fails part-way
ForeignOperations ==
    { << >>,
      << OpOpenTable("t") >>,
      << OpCommit, OpCommit >>,
      << OpOpenTable("t"), OpInsert("t", << 1 >>, << 2 >>), OpCommit, OpCommit >>,
      << OpOpenTable("t"), OpInsert("t", << 1 >>, << 2 >>), OpCommit >>,
      << OpOpenTable("t"), OpInsert("t", << 1 >>, << 2 >>),
         OpInsert("u", << 1 >>, << 2 >>), OpCommit >>,
      << OpOpenTable("t"), OpInsert("t", << 1 >>, << 2 >>),
         OpRenameTable("u", "t"), OpCommit >> }

\* the transactions append_tx is called with on journal j: the foreign ones
\* on every hash j knows, and the transactions j already holds
ForeignTxs(j) ==
    {[last_tx_hash |-> h, operations |-> o] :
        h \in {ZeroHash} \cup {r[2] : r \in j.journal}, o \in ForeignOperations}
      \cup {Parse(r[2]) : r \in j.txs}

\* primary.begin_write() on a free thread: redb blocks it while another
\* write transaction is alive
BeginWrite ==
    /\ ~atx.active
    /\ Cardinality(pending) < MaxThreads
    /\ Cardinality(primary.journal) < MaxTxs
    /\ atx' = TxNew(primary)
    /\ UNCHANGED << primary, replica, jlast, pending, drained >>

\* tx.open_table(t)
OpenTable ==
    \E t \in JTables :
        /\ CanOpenTable(atx, t)
        /\ Len(atx.ops) < MaxOps
        /\ atx' = TxOpenTable(atx, t)
        /\ UNCHANGED << primary, replica, jlast, pending, drained >>

\* a JournaledTable handle goes out of scope
DropTable ==
    \E t \in atx.open :
        /\ atx' = [atx EXCEPT !.open = @ \ {t}]
        /\ UNCHANGED << primary, replica, jlast, pending, drained >>

\* table.insert_bytes(k, v)
InsertBytes ==
    \E t \in JTables, k \in JKeys, v \in JValues :
        /\ CanWrite(atx, t)
        /\ Len(atx.ops) < MaxOps
        /\ atx' = TxInsertBytes(atx, t, k, v)
        /\ UNCHANGED << primary, replica, jlast, pending, drained >>

\* table.remove_bytes(k)
RemoveBytes ==
    \E t \in JTables, k \in JKeys :
        /\ CanWrite(atx, t)
        /\ Len(atx.ops) < MaxOps
        /\ atx' = TxRemoveBytes(atx, t, k)
        /\ UNCHANGED << primary, replica, jlast, pending, drained >>

\* tx.rename_table(old, new)
RenameTable ==
    \E old \in JTables, new \in JTables :
        /\ CanRenameTable(atx, old, new)
        /\ Len(atx.ops) < MaxOps
        /\ atx' = TxRenameTable(atx, old, new)
        /\ UNCHANGED << primary, replica, jlast, pending, drained >>

\* tx.delete_table(t)
DeleteTable ==
    \E t \in JTables :
        /\ CanDeleteTable(atx, t)
        /\ Len(atx.ops) < MaxOps
        /\ atx' = TxDeleteTable(atx, t)
        /\ UNCHANGED << primary, replica, jlast, pending, drained >>

\* tx.commit() up to and with the KV commit, which releases the write lock;
\* commit needs &mut self, so no table handle is alive
Commit ==
    /\ atx.active
    /\ atx.open = {}
    /\ LET r == TxCommitKv(primary, atx) IN
        /\ primary' = r.j
        /\ pending' = IF r.ok THEN pending \cup {r.tx} ELSE pending
        /\ jlast' = [op |-> "commit", tx |-> r.tx, ok |-> r.ok, err |-> r.err,
                     index_before |-> GetState(primary).next_tx_index]
    /\ atx' = NoTx
    /\ UNCHANGED << replica, drained >>

\* the rest of a commit or an append_tx on the primary: register_transaction
Register ==
    \E tx \in pending :
        /\ primary' = RegisterTransaction(primary, tx)
        /\ pending' = pending \ {tx}
        /\ UNCHANGED << atx, replica, jlast, drained >>

\* primary.drain_transactions()
Drain ==
    /\ primary.transactions # << >>
    /\ primary' = DrainTransactions(primary).j
    /\ drained' = drained \o DrainTransactions(primary).out
    /\ UNCHANGED << atx, replica, jlast, pending >>

\* tx.abort(): needs &mut self, so no table handle is alive
Abort ==
    /\ atx.active
    /\ atx.open = {}
    /\ atx' = NoTx
    /\ primary' = TxAbortJournal(primary, atx)
    /\ jlast' = [op |-> "abort", tx |-> [NoJournalTx EXCEPT !.operations = atx.ops],
                 ok |-> TRUE, err |-> "",
                 index_before |-> GetState(primary).next_tx_index]
    /\ UNCHANGED << replica, pending, drained >>

\* replica.append_tx(tx) for the next transaction of the primary's journal,
\* read with journal_tx_by_index as Journal::at_index does
AppendTxCall ==
    LET index == GetState(replica).next_tx_index IN
    /\ HasJournalTx(primary, index)
    /\ LET tx == JournalTxByIndex(primary, index)
           r == AppendTx(replica, tx)
       IN  /\ replica' = r.j
           /\ jlast' = [op |-> "append_tx", tx |-> tx, ok |-> r.ok, err |-> r.err,
                        index_before |-> index]
    /\ UNCHANGED << primary, atx, pending, drained >>

\* primary.append_tx(tx) on a free thread, for a transaction that comes from
\* outside; its begin_write blocks while a write transaction is alive, and
\* its register_transaction is the step Register
AppendForeign ==
    \E tx \in ForeignTxs(primary) :
        LET r == AppendTx(primary, tx) IN
        /\ ~atx.active
        /\ Cardinality(pending) < MaxThreads
        /\ Cardinality(r.j.journal) <= MaxTxs
        /\ primary' = [r.j EXCEPT !.transactions = primary.transactions]
        /\ pending' = IF r.ok THEN pending \cup {r.tx} ELSE pending
        /\ jlast' = [op |-> "append_foreign", tx |-> tx, ok |-> r.ok, err |-> r.err,
                     index_before |-> GetState(primary).next_tx_index]
        /\ UNCHANGED << atx, replica, drained >>

JNext ==
    \/ (BeginWrite /\ UNCHANGED << dbVars, kvVars, pureVars, cache >>)
    \/ (OpenTable /\ UNCHANGED << dbVars, kvVars, pureVars, cache >>)
    \/ (DropTable /\ UNCHANGED << dbVars, kvVars, pureVars, cache >>)
    \/ (InsertBytes /\ UNCHANGED << dbVars, kvVars, pureVars, cache >>)
    \/ (RemoveBytes /\ UNCHANGED << dbVars, kvVars, pureVars, cache >>)
    \/ (RenameTable /\ UNCHANGED << dbVars, kvVars, pureVars, cache >>)
    \/ (DeleteTable /\ UNCHANGED << dbVars, kvVars, pureVars, cache >>)
    \/ (Commit /\ UNCHANGED << dbVars, kvVars, pureVars, cache >>)
    \/ (Register /\ UNCHANGED << dbVars, kvVars, pureVars, cache >>)
    \/ (Drain /\ UNCHANGED << dbVars, kvVars, pureVars, cache >>)
    \/ (Abort /\ UNCHANGED << dbVars, kvVars, pureVars, cache >>)
    \/ (AppendTxCall /\ UNCHANGED << dbVars, kvVars, pureVars, cache >>)

JournalSpec == JInit /\ [][JNext]_vars

\* a journal that is written through journaled transactions and through
\* append_tx calls with transactions from outside
ANext ==
    \/ (BeginWrite /\ UNCHANGED << dbVars, kvVars, pureVars, cache >>)
    \/ (OpenTable /\ UNCHANGED << dbVars, kvVars, pureVars, cache >>)
    \/ (DropTable /\ UNCHANGED << dbVars, kvVars, pureVars, cache >>)
    \/ (InsertBytes /\ UNCHANGED << dbVars, kvVars, pureVars, cache >>)
    \/ (RemoveBytes /\ UNCHANGED << dbVars, kvVars, pureVars, cache >>)
    \/ (Commit /\ UNCHANGED << dbVars, kvVars, pureVars, cache >>)
    \/ (Register /\ UNCHANGED << dbVars, kvVars, pureVars, cache >>)
    \/ (Abort /\ UNCHANGED << dbVars, kvVars, pureVars, cache >>)
    \/ (AppendForeign /\ UNCHANGED << dbVars, kvVars, pureVars, cache >>)

AppendSpec == JInit /\ [][ANext]_vars

----------------------------------------------------------------------------
(* Collection::rebuild_indices *)

\* the declarations rebuild_indices is run on: the first of Schemas, and a
\* collection with one unique index
RebuildSchemas ==
    {Schemas[1],
     [name |-> "c", primary_key |-> << "id" >>,
      indices |-> << [fields |-> << "a", "b" >>, unique |-> TRUE] >>]}

\* the committed tables after a sequence of Collection::insert calls
RECURSIVE InsertAll(_, _, _)
InsertAll(committed, s, docs) ==
    IF docs = << >> THEN committed
    ELSE InsertAll(CollectionInsert(committed, s, Head(docs)).kv, s, Tail(docs))

\* the loop of tx.clear over self.indices: delete_table of the single valued
\* definition of each index table. typed says whether redb refuses to delete
\* a multimap table through a single valued definition (TableIsMultimap)
RECURSIVE ClearIndices(_, _, _, _)
ClearIndices(tx, indices, i, typed) ==
    IF i > Len(indices) THEN [ok |-> TRUE, err |-> "", tx |-> tx]
    ELSE LET table == TableName(indices[i]) IN
         IF typed /\ tx[table].exists /\ tx[table].multimap
         THEN [ok |-> FALSE, err |-> "TableIsMultimap", tx |-> tx]
         ELSE ClearIndices([tx EXCEPT ![table] = NoTable], indices, i + 1, typed)

\* the closure handed to scan, for one row of the collection table: every
\* index entry is written with insert on the handle of the KV
RECURSIVE ReinsertRow(_, _, _, _)
ReinsertRow(committed, indices, i, row) ==
    IF i > Len(indices) THEN committed
    ELSE ReinsertRow(
             HandleWrite(<< committed >>,
                         KvCall("insert", TableName(indices[i]),
                                Extract(indices[i].field_names,
                                        DeserializeDoc(row[2])),
                                row[1], NoRange)),
             indices, i + 1, row)

----------------------------------------------------------------------------
(* The rebuild specification *)

RInit ==
    /\ schema = 1
    /\ last = [op |-> "open", doc |-> NoDoc, query |-> EmptyQuery,
               ok |-> TRUE, err |-> "", out |-> << >>]
    /\ finds = 0
    /\ primary = EmptyJournal
    /\ atx = NoTx
    /\ replica = EmptyJournal
    /\ jlast = JournalOpened
    /\ pending = {}
    /\ drained = << >>
    /\ db = InMemory
    /\ wtx = NoWriteTx
    /\ rtx = NoReadTx
    /\ opened = [c \in KvReads |-> RtxRead(InMemory, NoReadTx, c).out]
    /\ klast = KvOpened
    /\ pure = NoCall
    /\ cache = NoCache
    /\ \E s \in RebuildSchemas :
           \E docs \in UNION {[1..n -> Docs] : n \in 0..MaxDocs} :
               LET stored == InsertAll([t \in AllTableNames |-> NoTable], s, docs)
               IN  /\ kv = stored
                   /\ rebuild = [s |-> s, pc |-> "clear", before |-> stored,
                                 rows |-> << >>]

\* one step of collection.rebuild_indices(): the write transaction that
\* clears the index tables and commits, the start of the scan of the
\* collection table, the closure for one row, and the return
RebuildIndices(pc) ==
    LET s == rebuild.s
        done(ok, err) == [op |-> "rebuild_indices", doc |-> NoDoc,
                          query |-> EmptyQuery, ok |-> ok, err |-> err,
                          out |-> << >>]
    IN
    /\ rebuild.pc = pc
    /\ CASE pc = "clear" ->
              \E typed \in BOOLEAN :
                  LET r == ClearIndices(kv, Indices(s), 1, typed) IN
                  IF r.ok
                  THEN /\ kv' = TxCommit(kv, r.tx)
                       /\ rebuild' = [rebuild EXCEPT !.pc = "scan"]
                       /\ UNCHANGED last
                  ELSE /\ kv' = TxDropped(kv, r.tx)
                       /\ rebuild' = [rebuild EXCEPT !.pc = "returned"]
                       /\ last' = done(FALSE, r.err)
         [] pc = "scan" ->
              LET r == HandleRead(<< kv >>,
                                  KvCall("range", s.name, << >>, << >>, NoRange))
              IN  IF r.ok
                  THEN /\ rebuild' = [rebuild EXCEPT !.pc = "row", !.rows = r.out]
                       /\ UNCHANGED << kv, last >>
                  ELSE /\ rebuild' = [rebuild EXCEPT !.pc = "returned"]
                       /\ last' = done(FALSE, "TableDoesNotExist")
                       /\ UNCHANGED kv
         [] pc = "row" ->
              IF rebuild.rows # << >>
              THEN /\ kv' = ReinsertRow(kv, Indices(s), 1, Head(rebuild.rows))
                   /\ rebuild' = [rebuild EXCEPT !.rows = Tail(@)]
                   /\ UNCHANGED last
              ELSE /\ rebuild' = [rebuild EXCEPT !.pc = "returned"]
                   /\ last' = done(TRUE, "")
                   /\ UNCHANGED kv
         [] OTHER -> FALSE
    /\ UNCHANGED << schema, finds >>

\* an error of the storage ends the rebuild in the middle of the scan: the
\* `?` on from_slice, on insert or on the item of the iterator
RebuildFails ==
    /\ rebuild.pc = "row"
    /\ rebuild' = [rebuild EXCEPT !.pc = "returned"]
    /\ last' = [op |-> "rebuild_indices", doc |-> NoDoc, query |-> EmptyQuery,
                ok |-> FALSE, err |-> "storage error", out |-> << >>]
    /\ UNCHANGED << schema, kv, finds >>

\* collection.find_many(query) on another thread while the rebuild runs
FindManyDuringRebuild ==
    \E q \in Queries :
        LET r == FindMany(kv, rebuild.s, q) IN
        /\ rebuild.pc \in {"scan", "row"}
        /\ finds < MaxFinds
        /\ finds' = finds + 1
        /\ last' = [op |-> "find_many", doc |-> NoDoc, query |-> q,
                    ok |-> r.ok, err |-> r.err, out |-> r.out]
        /\ UNCHANGED << schema, kv, rebuild >>

RNext ==
    \/ (RebuildIndices("clear") /\ UNCHANGED << journalVars, kvVars, pureVars, cache >>)
    \/ (RebuildIndices("scan") /\ UNCHANGED << journalVars, kvVars, pureVars, cache >>)
    \/ (RebuildIndices("row") /\ UNCHANGED << journalVars, kvVars, pureVars, cache >>)
    \/ (RebuildFails /\ UNCHANGED << journalVars, kvVars, pureVars, cache >>)
    \/ (FindManyDuringRebuild /\ UNCHANGED << journalVars, kvVars, pureVars, cache >>)

RebuildSpec == RInit /\ [][RNext]_vars

----------------------------------------------------------------------------
(* Opening a database: the checks of setup *)

\* Collection::table_names: the collection name and the table name of every
\* index handed to add_index
CollectionTableNames(c) ==
    << c.name >> \o [i \in 1..Len(c.indices) |-> TableName(SecondaryIndex(c, i))]

\* Collection::construct_indices: fails on two indices with one table name
\* (the macro gives every index the name of its collection)
ConstructIndices(c) ==
    \A i, j \in 1..Len(c.indices) :
        i # j => TableName(SecondaryIndex(c, i)) # TableName(SecondaryIndex(c, j))

\* setup of the derived database struct: collection by collection, every
\* name of table_names must be new to all_table_names, then
\* construct_indices must pass (set_primary_key has run for every collection)
RECURSIVE Setup(_, _, _)
Setup(decl, n, all_table_names) ==
    IF n > Len(decl) THEN [ok |-> TRUE, err |-> ""]
    ELSE LET names == CollectionTableNames(decl[n])
             used == \E i \in 1..Len(names) :
                         \/ names[i] \in all_table_names
                         \/ \E j \in 1..(i - 1) : names[j] = names[i]
         IN  IF used
             THEN [ok |-> FALSE,
                   err |-> "Table name is used by two different collections"]
             ELSE IF ~ConstructIndices(decl[n])
             THEN [ok |-> FALSE, err |-> "Collection contains a duplicate index"]
             ELSE Setup(decl, n + 1,
                        all_table_names \cup {names[i] : i \in 1..Len(names)})

\* the index attributes a collection is declared with
IndexDecls ==
    {[fields |-> << "a" >>, unique |-> FALSE],
     [fields |-> << "a" >>, unique |-> TRUE],
     [fields |-> << "id" >>, unique |-> TRUE],
     [fields |-> << "a", "b" >>, unique |-> FALSE],
     [fields |-> << "a_b" >>, unique |-> FALSE]}

\* the collections of a database struct: a field name, the primary key id
\* and up to two indices
CollectionDecls ==
    {[name |-> n, primary_key |-> << "id" >>, indices |-> ix] :
        n \in {"c", "c_a", "c_id_unique"},
        ix \in {<< >>} \cup {<< i >> : i \in IndexDecls}
                  \cup {<< i, j >> : i \in IndexDecls, j \in IndexDecls}}

\* database structs of one or two collections; the fields of a struct have
\* distinct names
Declarations ==
    {<< c >> : c \in CollectionDecls}
        \cup {cd \in CollectionDecls \X CollectionDecls :
                  cd[1].name # cd[2].name}

----------------------------------------------------------------------------
(* Index::query_compat in usize arithmetic *)

\* a usize is held as UsizeDigits digits in base 65536, least significant first
UsizeDigits == 4
UsizeZero == [i \in 1..UsizeDigits |-> 0]
UsizeMax == [i \in 1..UsizeDigits |-> ByteBase * ByteBase - 1]

\* digits * m with a carry, one digit longer than digits
RECURSIVE MulCarry(_, _, _)
MulCarry(digits, m, carry) ==
    IF digits = << >> THEN << carry >>
    ELSE LET p == Head(digits) * m + carry IN
         << p % (ByteBase * ByteBase) >>
             \o MulCarry(Tail(digits), m, p \div (ByteBase * ByteBase))

\* usize::saturating_mul
SaturatingMulUsize(x, m) ==
    LET p == MulCarry(x, m, 0) IN
    IF p[UsizeDigits + 1] # 0 THEN UsizeMax ELSE SubSeq(p, 1, UsizeDigits)

\* x + 1 in usize, wrapped to 0 at usize::MAX
RECURSIVE WrappingInc(_)
WrappingInc(x) ==
    IF x = << >> THEN << >>
    ELSE IF Head(x) = ByteBase * ByteBase - 1 THEN << 0 >> \o WrappingInc(Tail(x))
    ELSE << Head(x) + 1 >> \o Tail(x)

\* score += 1: at usize::MAX a build with overflow checks panics and a build
\* without them wraps
AddOne(st, overflow_checks) ==
    IF st.score # UsizeMax THEN [st EXCEPT !.score = WrappingInc(@)]
    ELSE IF overflow_checks THEN [st EXCEPT !.panic = TRUE]
    ELSE [st EXCEPT !.score = UsizeZero, !.wrapped = TRUE]

\* the loop of query_compat over field_names: kinds[i] is the kind of the
\* parameter index_params holds for field i, "None" when it holds none
RECURSIVE CompatUsize(_, _, _, _)
CompatUsize(kinds, i, st, overflow_checks) ==
    IF i > Len(kinds) \/ st.panic THEN st
    ELSE IF kinds[i] = "None" THEN CompatUsize(kinds, i + 1, st, overflow_checks)
    ELSE LET is_last_field == (i = Len(kinds))
             inc == AddOne(st, overflow_checks)
             mul(m) == [inc EXCEPT !.score = SaturatingMulUsize(@, m)]
             scan(m) == [mul(m) EXCEPT !.is_full_prefix = @ /\ is_last_field]
         IN  IF inc.panic THEN inc
             ELSE CASE kinds[i] = "Eq" ->
                           CompatUsize(kinds, i + 1, mul(10), overflow_checks)
                    [] kinds[i] = "In" ->
                           CompatUsize(kinds, i + 1, mul(8), overflow_checks)
                    [] kinds[i] = "Range" -> scan(5)
                    [] OTHER -> scan(2)

\* Index::query_compat for an index whose fields carry the given kinds
QueryCompatUsize(kinds, overflow_checks) ==
    LET st == CompatUsize(kinds, 1,
                          [score |-> UsizeZero, is_full_prefix |-> TRUE,
                           panic |-> FALSE, wrapped |-> FALSE],
                          overflow_checks)
    IN  IF st.is_full_prefix /\ ~st.panic
        THEN [st EXCEPT !.score = SaturatingMulUsize(@, 10000)]
        ELSE st

\* the kinds a parameter has
ParamKinds == {"None", "Eq", "In", "Range", "Neq", "Nin"}

\* at most this many fields in an index whose fields carry every mix of kinds
MaxMixedFields == 3
\* at most this many fields in an index whose fields all carry Eq or In
MaxEqFields == 24

\* the indexes query_compat is scored on: per field the kind of its parameter
\* and whether the type of the field is fixed-width
CompatInputs ==
    UNION {[1..n -> [kind : ParamKinds, fixed_width : BOOLEAN]] :
              n \in 1..MaxMixedFields}
      \cup UNION {[1..n -> [kind : {k}, fixed_width : {TRUE}]] :
                     k \in {"Eq", "In"}, n \in (MaxMixedFields + 1)..MaxEqFields}

----------------------------------------------------------------------------
(* MetadataDocument::compare *)

\* the two errors of compare
VersionMismatch ==
    "Metadata version mimatch. This implementation of AnonDB does not support metadata version migration."
SchemaChanged == "Changes to schema detected, refusing to start"

\* PartialEq of BTreeMap and HashMap, held as sets of (key, value) with one
\* value per key: the same length, and every entry of a found in b
MapEq(a, b) ==
    /\ Cardinality(a) = Cardinality(b)
    /\ \A e \in a : MapHas(b, e[1]) /\ MapGet(b, e[1]) = e[2]

\* #[derive(PartialEq)] of IndexDescription
IndexDescriptionEq(x, y) ==
    /\ x.collection_name = y.collection_name
    /\ x.field_names = y.field_names
    /\ x.options = y.options
    /\ x.table_name = y.table_name

\* PartialEq of HashMap<String, IndexDescription>
IndicesEq(a, b) ==
    /\ Cardinality(a) = Cardinality(b)
    /\ \A e \in a : MapHas(b, e[1]) /\ IndexDescriptionEq(MapGet(b, e[1]), e[2])

\* PartialEq of HashMap<String, CollectionDescription>
CollectionsEq(a, b) ==
    /\ Cardinality(a) = Cardinality(b)
    /\ \A e \in a : MapHas(b, e[1]) /\ MapEq(MapGet(b, e[1]).fields, e[2].fields)

\* a compare that accepts a stored schema the live one only adds to
CompareAcceptsAdditions(self, other) ==
    IF self.version # other.version THEN [ok |-> FALSE, err |-> VersionMismatch]
    ELSE IF /\ \A e \in other.indices_by_collection : e \in self.indices_by_collection
            /\ \A e \in other.collections :
                    /\ MapHas(self.collections, e[1])
                    /\ e[2].fields \subseteq MapGet(self.collections, e[1]).fields
    THEN [ok |-> TRUE, err |-> ""]
    ELSE [ok |-> FALSE, err |-> SchemaChanged]

\* MetadataDocument::compare
Compare(self, other) ==
    IF self.version # other.version THEN [ok |-> FALSE, err |-> VersionMismatch]
    ELSE IF /\ IndicesEq(self.indices_by_collection, other.indices_by_collection)
            /\ CollectionsEq(self.collections, other.collections)
    THEN [ok |-> TRUE, err |-> ""]
    ELSE [ok |-> FALSE, err |-> SchemaChanged]

\* the descriptors compare is called with
IndexDescriptions(c) ==
    {[collection_name |-> c, field_names |-> f,
      options |-> [unique |-> u, full_docs |-> FALSE], table_name |-> c \o "_idx"] :
        f \in {<< "id" >>, << "id", "name" >>}, u \in IF c = "c" THEN BOOLEAN ELSE {TRUE}}
FieldMaps(c) ==
    IF c = "c"
    THEN {{<< "id", "u64" >>}, {<< "id", "u32" >>},
          {<< "id", "u64" >>, << "name", "String" >>}}
    ELSE {{<< "id", "u64" >>}}
MapsOf(entries(_)) ==
    {a \cup b : a \in {{}} \cup {{<< "c", e >>} : e \in entries("c")},
                b \in {{}} \cup {{<< "d", e >>} : e \in entries("d")}}
CollectionDescriptions(c) == {[fields |-> f] : f \in FieldMaps(c)}
MetadataDocuments ==
    [version : {1, 2}, schema_version : {0, 1},
     indices_by_collection : MapsOf(IndexDescriptions),
     collections : MapsOf(CollectionDescriptions)]

----------------------------------------------------------------------------
(* The compound key of a primary key or an index *)

\* the closures the derive generates for a primary key and for an index:
\* append_key_slice of serialize_lex of every key field, then key.take()
RECURSIVE KeyFrom(_, _, _)
KeyFrom(fields, i, key) ==
    IF i > Len(fields) THEN key
    ELSE KeyFrom(fields, i + 1, AppendKeySlice(key, SerializeLex(fields[i])))
CompoundKey(fields) == KeyFrom(fields, 1, << >>)

\* the types of the key fields the closures are driven with
KeyTypes ==
    {<< << "String" >> >>, << << "u16" >>, << "u8" >> >>,
     << << "String" >>, << "u8" >> >>, << << "u8" >>, << "String" >> >>,
     << << "String" >>, << "String" >> >>,
     << << "option", "String" >>, << "bool" >> >>}
TuplesOf(types) ==
    IF Len(types) = 1 THEN {<< a >> : a \in ValuesOf(types[1])}
    ELSE {<< a, b >> : a \in ValuesOf(types[1]), b \in ValuesOf(types[2])}

----------------------------------------------------------------------------
(* The specification of the pure functions *)

PInit ==
    /\ schema = 1
    /\ kv = [t \in AllTableNames |-> NoTable]
    /\ last = [op |-> "open", doc |-> NoDoc, query |-> EmptyQuery,
               ok |-> TRUE, err |-> "", out |-> << >>]
    /\ finds = 0
    /\ primary = EmptyJournal
    /\ atx = NoTx
    /\ replica = EmptyJournal
    /\ jlast = JournalOpened
    /\ pending = {}
    /\ drained = << >>
    /\ db = InMemory
    /\ wtx = NoWriteTx
    /\ rtx = NoReadTx
    /\ opened = [c \in KvReads |-> RtxRead(InMemory, NoReadTx, c).out]
    /\ klast = KvOpened
    /\ rebuild = NoRebuild
    /\ cache = NoCache
    /\ \/ \E type \in LexTypes :
              \E x \in ValuesOf(type), y \in ValuesOf(type) :
                  pure = [fn |-> "serialize_lex", args |-> << x, y >>,
                          out |-> << >>, done |-> FALSE]
       \/ \E decl \in Declarations :
              pure = [fn |-> "in_memory", args |-> << decl >>,
                      out |-> << >>, done |-> FALSE]
       \/ \E fields \in CompatInputs :
              pure = [fn |-> "query_compat", args |-> << fields >>,
                      out |-> << >>, done |-> FALSE]
       \/ \E self \in MetadataDocuments, other \in MetadataDocuments :
              pure = [fn |-> "compare", args |-> << self, other >>,
                      out |-> << >>, done |-> FALSE]
       \/ \E types \in KeyTypes :
              \E x \in TuplesOf(types), y \in TuplesOf(types) :
                  pure = [fn |-> "serialize", args |-> << x, y >>,
                          out |-> << >>, done |-> FALSE]

\* x.serialize_lex() and y.serialize_lex() for two values of one type
SerializeLexCall ==
    /\ pure.fn = "serialize_lex"
    /\ ~pure.done
    /\ pure' = [pure EXCEPT !.out = << SerializeLex(pure.args[1]),
                                       SerializeLex(pure.args[2]) >>,
                            !.done = TRUE]

\* DB::in_memory(None): the collections are assigned and setup checks them
InMemoryCall ==
    /\ pure.fn = "in_memory"
    /\ ~pure.done
    /\ pure' = [pure EXCEPT !.out = << Setup(pure.args[1], 1, {}) >>,
                            !.done = TRUE]

\* index.query_compat(query, index_params), in a build with or without
\* overflow checks
QueryCompatCall ==
    \E overflow_checks \in BOOLEAN :
        LET fields == pure.args[1]
            kinds == [i \in 1..Len(fields) |-> fields[i].kind]
        IN  /\ pure.fn = "query_compat"
            /\ ~pure.done
            /\ pure' = [pure EXCEPT
                            !.out = << QueryCompatUsize(kinds, overflow_checks) >>,
                            !.done = TRUE]

\* self.compare(&other)
CompareCall ==
    /\ pure.fn = "compare"
    /\ ~pure.done
    /\ pure' = [pure EXCEPT !.out = << Compare(pure.args[1], pure.args[2]) >>,
                            !.done = TRUE]

\* the key closure on the key fields of two documents
SerializeKeyCall ==
    /\ pure.fn = "serialize"
    /\ ~pure.done
    /\ pure' = [pure EXCEPT !.out = << CompoundKey(pure.args[1]),
                                       CompoundKey(pure.args[2]) >>,
                            !.done = TRUE]

PNext ==
    \/ (SerializeLexCall /\ UNCHANGED << dbVars, journalVars, kvVars, cache >>)
    \/ (InMemoryCall /\ UNCHANGED << dbVars, journalVars, kvVars, cache >>)
    \/ (QueryCompatCall /\ UNCHANGED << dbVars, journalVars, kvVars, cache >>)
    \/ (CompareCall /\ UNCHANGED << dbVars, journalVars, kvVars, cache >>)
    \/ (SerializeKeyCall /\ UNCHANGED << dbVars, journalVars, kvVars, cache >>)

PureSpec == PInit /\ [][PNext]_vars

----------------------------------------------------------------------------
(* The KV specification *)

\* RedbKV::write_tx: begin_write waits while another write transaction lives
BeginWriteTx ==
    /\ ~wtx.active
    /\ Len(db) <= MaxKvCommits
    /\ wtx' = [active |-> TRUE, tables |-> db[Len(db)], ops |-> 0]
    /\ UNCHANGED << db, rtx, opened, klast >>

\* one call of WriteOperations on the write transaction
WriteThroughTx(ops) ==
    \E call \in KvWrites :
        /\ call.op \in ops
        /\ wtx.active
        /\ wtx.ops < MaxKvOps
        /\ wtx' = [wtx EXCEPT !.tables = TxWrite(@, call), !.ops = @ + 1]
        /\ klast' = [surface |-> "write_tx", call |-> call]
        /\ UNCHANGED << db, rtx, opened >>

\* one call of ReadOperations on the write transaction
ReadThroughWriteTx(ops) ==
    \E call \in KvReads :
        LET r == WtxRead(wtx.tables, call) IN
        /\ call.op \in ops
        /\ wtx.active
        /\ wtx' = [wtx EXCEPT !.tables = r.tables]
        /\ UNCHANGED << db, rtx, opened, klast >>

\* WriteTx::commit
CommitWriteTx ==
    /\ wtx.active
    /\ db' = Append(db, TxCommit(db[Len(db)], wtx.tables))
    /\ wtx' = NoWriteTx
    /\ UNCHANGED << rtx, opened, klast >>

\* the write transaction goes out of scope
DropWriteTx ==
    /\ wtx.active
    /\ db' = [db EXCEPT ![Len(db)] = TxDropped(@, wtx.tables)]
    /\ wtx' = NoWriteTx
    /\ UNCHANGED << rtx, opened, klast >>

\* one call of WriteOperations on the handle
WriteThroughHandle(ops) ==
    \E call \in KvWrites :
        /\ call.op \in ops
        /\ ~wtx.active
        /\ db' = [db EXCEPT ![Len(db)] = HandleWrite(db, call)]
        /\ klast' = [surface |-> "handle", call |-> call]
        /\ UNCHANGED << wtx, rtx, opened >>

\* RedbKV::read_tx
BeginReadTx ==
    /\ ~rtx.open
    /\ rtx' = ReadTx(db)
    /\ opened' = [c \in KvReads |-> RtxRead(db, ReadTx(db), c).out]
    /\ UNCHANGED << db, wtx, klast >>

\* the read transaction goes out of scope
DropReadTx ==
    /\ rtx.open
    /\ rtx' = NoReadTx
    /\ opened' = [c \in KvReads |-> RtxRead(InMemory, NoReadTx, c).out]
    /\ UNCHANGED << db, wtx, klast >>

\* one call of ReadOperations on the read transaction
ReadThroughTx(ops) ==
    \E call \in KvReads :
        LET r == RtxRead(db, rtx, call) IN
        /\ call.op \in ops
        /\ rtx.open
        /\ rtx' = r.tx
        /\ UNCHANGED << db, wtx, opened, klast >>

\* one call of ReadOperations on the handle
ReadThroughHandle(ops) ==
    \E call \in KvReads :
        /\ call.op \in ops
        /\ HandleRead(db, call).ok \in BOOLEAN   \* the read changes nothing
        /\ UNCHANGED << db, wtx, rtx, opened, klast >>

KNext ==
    \/ (BeginWriteTx /\ UNCHANGED << dbVars, journalVars, pureVars, cache >>)
    \/ (WriteThroughTx({"insert"}) /\ UNCHANGED << dbVars, journalVars, pureVars, cache >>)
    \/ (WriteThroughTx({"remove"}) /\ UNCHANGED << dbVars, journalVars, pureVars, cache >>)
    \/ (WriteThroughTx({"clear"}) /\ UNCHANGED << dbVars, journalVars, pureVars, cache >>)
    \/ (WriteThroughTx({"insert_multimap"})
            /\ UNCHANGED << dbVars, journalVars, pureVars, cache >>)
    \/ (WriteThroughTx({"remove_multimap"})
            /\ UNCHANGED << dbVars, journalVars, pureVars, cache >>)
    \/ (WriteThroughTx({"remove_all_multimap"})
            /\ UNCHANGED << dbVars, journalVars, pureVars, cache >>)
    \/ (WriteThroughTx({"clear_multimap"})
            /\ UNCHANGED << dbVars, journalVars, pureVars, cache >>)
    \/ (ReadThroughWriteTx({"count", "count_multimap"})
            /\ UNCHANGED << dbVars, journalVars, pureVars, cache >>)
    \/ (ReadThroughWriteTx({"get", "get_multimap"})
            /\ UNCHANGED << dbVars, journalVars, pureVars, cache >>)
    \/ (ReadThroughWriteTx({"range", "range_multimap"})
            /\ UNCHANGED << dbVars, journalVars, pureVars, cache >>)
    \/ (CommitWriteTx /\ UNCHANGED << dbVars, journalVars, pureVars, cache >>)
    \/ (DropWriteTx /\ UNCHANGED << dbVars, journalVars, pureVars, cache >>)
    \/ (WriteThroughHandle({"insert", "insert_multimap"})
            /\ UNCHANGED << dbVars, journalVars, pureVars, cache >>)
    \/ (WriteThroughHandle({"remove", "remove_multimap", "remove_all_multimap"})
            /\ UNCHANGED << dbVars, journalVars, pureVars, cache >>)
    \/ (WriteThroughHandle({"clear", "clear_multimap"})
            /\ UNCHANGED << dbVars, journalVars, pureVars, cache >>)
    \/ (BeginReadTx /\ UNCHANGED << dbVars, journalVars, pureVars, cache >>)
    \/ (DropReadTx /\ UNCHANGED << dbVars, journalVars, pureVars, cache >>)
    \/ (ReadThroughTx({"count", "count_multimap"})
            /\ UNCHANGED << dbVars, journalVars, pureVars, cache >>)
    \/ (ReadThroughTx({"get", "get_multimap"})
            /\ UNCHANGED << dbVars, journalVars, pureVars, cache >>)
    \/ (ReadThroughTx({"range", "range_multimap"})
            /\ UNCHANGED << dbVars, journalVars, pureVars, cache >>)
    \/ (ReadThroughHandle({"count", "count_multimap"})
            /\ UNCHANGED << dbVars, journalVars, pureVars, cache >>)
    \/ (ReadThroughHandle({"get", "get_multimap"})
            /\ UNCHANGED << dbVars, journalVars, pureVars, cache >>)
    \/ (ReadThroughHandle({"range", "range_multimap"})
            /\ UNCHANGED << dbVars, journalVars, pureVars, cache >>)

KvSpec == JInit /\ [][KNext]_vars

----------------------------------------------------------------------------
(* Properties of the collection *)

SeqToSet(seq) == {seq[i] : i \in 1..Len(seq)}

\* the stored documents a query selects
Expected(tables, s, q) == {d \in StoredDocs(tables, s) : Matches(d, q)}

\* the primary key index and the secondary indices of a collection
AllIndexes(s) ==
    {PrimaryKeyIndex(s)} \cup {SecondaryIndex(s, i) : i \in 1..Len(s.indices)}

\* the query with Eq on each of the given fields, set to the values of doc
EqQuery(names, doc) ==
    [f \in Fields |-> IF f \in SeqToSet(names) THEN EqP(doc[f]) ELSE NoParam]

\* C1: an insert of a document whose primary key is already stored fails, and
\* no table of the collection (primary or index) changes.
C1_DuplicatePrimaryKeyRejected ==
    [][(/\ last'.op = "insert"
        /\ Has(kv, Schemas[schema].name,
               Extract(Schemas[schema].primary_key, last'.doc)))
          => (~last'.ok /\ kv' = kv)]_vars

\* C1 happens: a duplicate primary key was refused while index entries exist
C1_Witness ==
    /\ last.op = "insert"
    /\ ~last.ok
    /\ last.err = "primary key already exists"
    /\ Has(kv, Schemas[schema].name, Extract(Schemas[schema].primary_key, last.doc))
    /\ \E i \in 1..Len(Schemas[schema].indices) :
          kv[TableName(SecondaryIndex(Schemas[schema], i))].rows # {}

\* C2: every document of the primary table has, in every secondary index, the
\* entry (extractor output, primary key), in a single-valued table for a unique
\* index and in a multimap for a non-unique one; and every index entry points
\* to a primary key that is stored.
C2_IndexesMatchPrimaryTable ==
    LET s == Schemas[schema] IN
    \A i \in 1..Len(s.indices) :
        LET index == SecondaryIndex(s, i)
            table == kv[TableName(index)]
        IN  /\ \A row \in kv[s.name].rows :
                LET key == Extract(index.field_names, DeserializeDoc(row[2])) IN
                /\ << key, row[1] >> \in table.rows
                /\ table.exists
                /\ table.multimap = ~index.unique
                /\ index.unique => Cardinality({r \in table.rows : r[1] = key}) = 1
            /\ \A r \in table.rows : Has(kv, s.name, r[2])

\* C2 happens: two documents are stored and share one key of a multimap index
C2_Witness ==
    /\ Cardinality(kv[Schemas[schema].name].rows) = 2
    /\ \E i \in 1..Len(Schemas[schema].indices) :
          LET table == kv[TableName(SecondaryIndex(Schemas[schema], i))] IN
          /\ table.multimap
          /\ \E r1 \in table.rows, r2 \in table.rows : r1[1] = r2[1] /\ r1[2] # r2[2]

C4_EqQueryOnEveryIndex ==
    (last.op = "insert" /\ last.ok) =>
        \A index \in AllIndexes(Schemas[schema]) :
            LET q == EqQuery(index.field_names, last.doc)
                r == IndexQuery(kv, index, q, AllParams(q))
            IN
            /\ r.ok
            /\ last.doc \in SeqToSet(r.out)
            /\ SeqToSet(r.out) =
                 {e \in StoredDocs(kv, Schemas[schema]) :
                    \A f \in SeqToSet(index.field_names) : e[f] = last.doc[f]}

\* a query with one Range parameter, on the first field of an index
SingleRangeOnFirstField(s, q) ==
    \E f \in Fields :
        /\ q[f].kind = "Range"
        /\ \A g \in Fields \ {f} : q[g].kind = "None"
        /\ \E i \in 1..Len(s.indices) : s.indices[i].fields[1] = f

\* C5: find_many with a single Range parameter on the first field of an index
\* returns exactly the stored documents whose field lies in the range.
C5_SingleRangeIsExact ==
    (last.op = "find_many" /\ SingleRangeOnFirstField(Schemas[schema], last.query)) =>
        /\ last.ok
        /\ SeqToSet(last.out) = Expected(kv, Schemas[schema], last.query)
        /\ Len(last.out) = Cardinality(Expected(kv, Schemas[schema], last.query))

\* a query with Eq on the leading fields of a compound index, a Range on the
\* next field and nothing else
EqThenRange(names, q) ==
    \E k \in 1..(Len(names) - 1) :
        /\ \A j \in 1..k : q[names[j]].kind = "Eq"
        /\ q[names[k + 1]].kind = "Range"
        /\ \A f \in Fields \ {names[j] : j \in 1..(k + 1)} : q[f].kind = "None"

\* C6: on a compound index, Eq on the leading fields with a Range on the next
\* field returns every matching document, and the planned scan range contains
\* the index key of every matching document.
C6_EqThenRangeFindsAll ==
    \A i \in 1..Len(Schemas[schema].indices) :
        LET index == SecondaryIndex(Schemas[schema], i) IN
        (last.op = "find_many" /\ EqThenRange(index.field_names, last.query)) =>
            /\ last.ok
            /\ \A d \in Expected(kv, Schemas[schema], last.query) :
                  /\ d \in SeqToSet(last.out)
                  /\ KeyInRange(Plan(index, IndexFields(Schemas[schema], last.query)),
                                Extract(index.field_names, d))

\* C7: find_one and find_many succeed on every opened collection, one with
\* only a primary key included.
C7_FindAlwaysHasAnIndex ==
    last.op \in {"find_one", "find_many"} => last.ok

----------------------------------------------------------------------------
(* Properties of the journal *)

\* the journal of j is a hash chain over the keys 0..n-1
ChainOk(j) ==
    LET n == Cardinality(j.journal) IN
    /\ {r[1] : r \in j.journal} = 0..(n - 1)
    /\ \A i \in 0..(n - 1) :
          LET tx_hash == MapGet(j.journal, i) IN
          /\ MapHas(j.txs, tx_hash)
          /\ tx_hash = Hash(Parse(MapGet(j.txs, tx_hash)))
          /\ Parse(MapGet(j.txs, tx_hash)).last_tx_hash =
                (IF i = 0 THEN ZeroHash ELSE MapGet(j.journal, i - 1))

\* C8: replaying the primary's journal in order with append_tx on an empty
\* journal succeeds at every step and, once every transaction is replayed,
\* gives the same entries in every user table.
C8_ReplayReproducesTables ==
    /\ jlast.op = "append_tx" => jlast.ok
    /\ Cardinality(replica.journal) = Cardinality(primary.journal) =>
          \A t \in JTables : replica.tables[t].rows = primary.tables[t].rows

\* C9: after any commits, aborts and append_tx calls, the journal table has
\* the keys 0..n-1, the transaction at 0 has the zero hash as last_tx_hash,
\* the one at i has journal[i-1], and journal[i] is the hash of the stored
\* transaction.
C9_JournalIsHashChain == ChainOk(primary) /\ ChainOk(replica)

\* C9 happens: two transactions were committed and both were replayed
C9_Witness ==
    /\ Cardinality(primary.journal) = 2
    /\ Cardinality(replica.journal) = 2
    /\ jlast.op = "append_tx"
    /\ jlast.ok

\* C10: after append_tx(tx) succeeds, next_tx_index grew by one and
\* last_tx_hash is the hash of tx.
C10_AppendTxAdvancesState ==
    (jlast.op = "append_tx" /\ jlast.ok) =>
        /\ GetState(replica).next_tx_index = jlast.index_before + 1
        /\ GetState(replica).last_tx_hash = Hash(jlast.tx)

----------------------------------------------------------------------------
(* Properties of append_tx, commit and abort *)

\* C11: append_tx(tx) with a last_tx_hash other than the journal's fails and
\* leaves the journal state, the queue and every table as they were; the
\* transaction that was just applied is rejected when it is applied again.
C11_DivergentAppendRejected ==
    /\ \A tx \in ForeignTxs(primary) :
          tx.last_tx_hash # GetState(primary).last_tx_hash =>
              /\ ~AppendTx(primary, tx).ok
              /\ AppendTx(primary, tx).j = primary
    /\ (jlast.op = "append_foreign" /\ jlast.ok) =>
          /\ ~AppendTx(primary, jlast.tx).ok
          /\ AppendTx(primary, jlast.tx).j = primary

\* C11 happens: the transaction at the head of a journal with stored entries
\* was applied a second time and refused as divergent
C11_Witness ==
    /\ jlast.op = "append_foreign"
    /\ ~jlast.ok
    /\ jlast.err = "cannot apply transaction to divergent last_tx_hash"
    /\ Hash(jlast.tx) = GetState(primary).last_tx_hash
    /\ \E t \in JTables : primary.tables[t].rows # {}

\* what one recorded operation does to the user tables
ApplyOperation(tables, o) ==
    CASE o.op = "OpenTable" -> [tables EXCEPT ![o.table].exists = TRUE]
      [] o.op = "Insert" ->
            [tables EXCEPT ![o.table].rows = MapInsert(@, o.key, o.value)]
      [] o.op = "Remove" -> [tables EXCEPT ![o.table].rows = MapRemove(@, o.key)]
      [] o.op = "RenameTable" ->
            [tables EXCEPT ![o.new] = tables[o.table], ![o.table] = NoJTable]
      [] o.op = "DeleteTable" -> [tables EXCEPT ![o.table] = NoJTable]
      [] OTHER -> tables

RECURSIVE ApplyOperations(_, _, _)
ApplyOperations(tables, operations, i) ==
    IF i > Len(operations) THEN tables
    ELSE ApplyOperations(ApplyOperation(tables, operations[i]), operations, i + 1)

\* the user tables that the transactions recorded at indexes 0..n-1 describe
RECURSIVE RecordedTables(_, _)
RecordedTables(j, n) ==
    IF n = 0 THEN EmptyJournal.tables
    ELSE ApplyOperations(RecordedTables(j, n - 1),
                         JournalTxByIndex(j, n - 1).operations, 1)

\* the user tables of j are those its journal describes, and the journal
\* table and the transactions table hold the same hashes
JournalAgrees(j) ==
    /\ {r[2] : r \in j.journal} = {r[1] : r \in j.txs}
    /\ \A i \in 0..(Cardinality(j.journal) - 1) : HasJournalTx(j, i)
    /\ j.tables = RecordedTables(j, Cardinality(j.journal))

\* C12: in every committed state the user tables hold exactly the writes of
\* the transactions that have a journal entry and a transaction record, and
\* the journal table and the transactions table hold the same hashes.
C12_DataAndJournalAgree == JournalAgrees(primary) /\ JournalAgrees(replica)

\* C12 happens: two journaled transactions are committed and left rows
C12_Witness ==
    /\ Cardinality(primary.journal) = 2
    /\ jlast.op = "commit"
    /\ jlast.ok
    /\ \E o \in SeqToSet(jlast.tx.operations) : o.op = "Insert"
    /\ \E t \in JTables : primary.tables[t].rows # {}

\* no two recorded transactions of j carry the same last_tx_hash, and every
\* recorded transaction has one journal index
NoFork(j) ==
    /\ \A r1 \in j.txs, r2 \in j.txs :
          Parse(r1[2]).last_tx_hash = Parse(r2[2]).last_tx_hash => r1 = r2
    /\ Cardinality(j.txs) = Cardinality(j.journal)

\* C13: with several threads writing to one journal, every commit that
\* changes the journal table adds exactly one entry, at the index that equals
\* the number of entries before it, for a transaction that continues the last
\* hash; no two committed transactions carry the same last_tx_hash.
C13_CommitsAreSerialized ==
    [][primary'.journal # primary.journal =>
          LET n == Cardinality(primary.journal) IN
          /\ \E h \in {r[1] : r \in primary'.txs} :
                /\ primary'.journal = primary.journal \cup {<< n, h >>}
                /\ ~MapHas(primary.journal, n)
                /\ Parse(MapGet(primary'.txs, h)).last_tx_hash =
                      GetState(primary).last_tx_hash
          /\ NoFork(primary')]_vars

\* C13 happens: two threads have committed and neither has reached
\* register_transaction yet
C13_Witness ==
    /\ Cardinality(pending) = 2
    /\ Cardinality(primary.journal) = 2
    /\ primary.transactions = << >>

\* the last call returned in this step, it is op and it succeeded
Succeeded(op) == jlast' # jlast /\ jlast'.op = op /\ jlast'.ok

\* get_state reports the last stored hash, or the zero hash on an empty journal
StateMatchesJournal(j) ==
    LET state == GetState(j) IN
    /\ state.ok
    /\ state.next_tx_index = Cardinality(j.journal)
    /\ state.last_tx_hash =
          (IF state.next_tx_index = 0 THEN ZeroHash
           ELSE MapGet(j.journal, state.next_tx_index - 1))

\* C14: next_tx_index is 0 on an empty journal, grows by exactly one with
\* each successful commit (of a journaled transaction or inside append_tx) and
\* stays as it is in every other step (table operations, aborts, failed calls);
\* last_tx_hash is the hash stored at next_tx_index - 1, or the zero hash.
C14_NextTxIndexCountsCommits ==
    [][/\ (primary.journal = {} => GetState(primary).next_tx_index = 0)
       /\ (replica.journal = {} => GetState(replica).next_tx_index = 0)
       /\ GetState(primary').next_tx_index =
             GetState(primary).next_tx_index + (IF Succeeded("commit") THEN 1 ELSE 0)
       /\ GetState(replica').next_tx_index =
             GetState(replica).next_tx_index + (IF Succeeded("append_tx") THEN 1 ELSE 0)
       /\ StateMatchesJournal(primary')
       /\ StateMatchesJournal(replica')]_vars

\* C14 happens: two commits were counted, and an append_tx that failed left
\* the count of the other journal at one
C14_Witness ==
    /\ GetState(primary).next_tx_index = 2
    /\ GetState(replica).next_tx_index = 1
    /\ jlast.op = "append_tx"
    /\ ~jlast.ok

\* C15: abort() drops the queued operations and the write transaction: the
\* committed tables, both journal tables, the journal state and the queue of
\* committed transactions are as before, and no transaction awaits its
\* registration because of it.
C15_AbortDiscardsEverything ==
    [][(jlast'.op = "abort" /\ atx.active /\ ~atx'.active) =>
          /\ primary' = primary
          /\ GetState(primary') = GetState(primary)
          /\ pending' = pending
          /\ atx'.ops = << >>
          /\ jlast'.ok]_vars

\* C15 happens: a transaction that had inserted a row was aborted on a
\* journal that holds a committed transaction, and the row is not visible
C15_Witness ==
    /\ jlast.op = "abort"
    /\ \E o \in SeqToSet(jlast.tx.operations) :
          /\ o.op = "Insert"
          /\ << o.key, o.value >> \notin primary.tables[o.table].rows
    /\ Cardinality(primary.journal) = 1

\* an operation list that is empty, does not end with Commit, or holds a
\* Commit before its last position
IllFormed(operations) ==
    \/ operations = << >>
    \/ operations[Len(operations)] # OpCommit
    \/ \E i \in 1..(Len(operations) - 1) : operations[i] = OpCommit

\* C16: append_tx rejects a transaction whose operation list is empty, does
\* not end with Commit or holds a Commit before the last position, and
\* leaves the journal state and all tables unchanged.
C16_IllFormedAppendRejected ==
    \A tx \in ForeignTxs(primary) :
        IllFormed(tx.operations) =>
            /\ ~AppendTx(primary, tx).ok
            /\ AppendTx(primary, tx).j = primary

\* C16 happens: a transaction on the current hash with a Commit in the
\* middle was refused after its first operations had been replayed
C16_Witness ==
    /\ jlast.op = "append_foreign"
    /\ ~jlast.ok
    /\ jlast.err = "commit operation must be final operation"
    /\ Len(jlast.tx.operations) = 4
    /\ primary.journal # {}

\* C17: an append_tx that fails, also part-way through the replay (an Insert
\* or Remove on a table with no OpenTable before it, a KV operation that
\* fails), leaves no replayed operation applied, adds no journal entry and
\* leaves the state as before the call.
C17_FailedAppendLeavesNothing ==
    \A tx \in ForeignTxs(primary) :
        ~AppendTx(primary, tx).ok =>
            /\ AppendTx(primary, tx).j = primary
            /\ GetState(AppendTx(primary, tx).j) = GetState(primary)

\* C17 happens: a replay that had opened a table and inserted a row failed at
\* a later operation (an Insert on a table that was not opened, or a rename
\* that the KV refuses), and the row is not in the table
C17_Witness ==
    /\ jlast.op = "append_foreign"
    /\ ~jlast.ok
    /\ jlast.err \in {"table is not open", "redb: rename refused"}
    /\ jlast.tx.operations[2].op = "Insert"
    /\ << jlast.tx.operations[2].key, jlast.tx.operations[2].value >>
          \notin primary.tables[jlast.tx.operations[2].table].rows

\* the operations a JournalTransaction may list before its final Commit
Mutations == {"OpenTable", "Insert", "Remove", "RenameTable", "DeleteTable"}

\* C18: every operation performed through a transaction or its tables queues
\* exactly one matching operation, in the order performed, and commit records
\* the queued operations followed by exactly one Commit, as the last element.
C18_RecordedOperationsAreThosePerformed ==
    [][/\ (~atx.active /\ atx'.active) => atx'.ops = << >>
       /\ (atx.active /\ atx'.active /\ atx' # atx) =>
             \/ (atx'.ops = atx.ops /\ atx'.tables = atx.tables)
             \/ /\ Len(atx'.ops) = Len(atx.ops) + 1
                /\ atx'.ops = Append(atx.ops, atx'.ops[Len(atx'.ops)])
                /\ atx'.ops[Len(atx'.ops)].op \in Mutations
                /\ atx'.tables = ApplyOperation(atx.tables, atx'.ops[Len(atx'.ops)])
       /\ Succeeded("commit") =>
             /\ jlast'.tx.operations = Append(atx.ops, OpCommit)
             /\ \A i \in 1..Len(atx.ops) : atx.ops[i].op \in Mutations
             /\ JournalTxByIndex(primary', jlast'.index_before) = jlast'.tx]_vars

\* C18 happens: a transaction that opened a table and removed a key that was
\* absent was committed with exactly 3 operations
C18_Witness ==
    /\ jlast.op = "commit"
    /\ jlast.ok
    /\ Len(jlast.tx.operations) = 3
    /\ jlast.tx.operations[1].op = "OpenTable"
    /\ jlast.tx.operations[2].op = "Remove"
    /\ jlast.tx.last_tx_hash = ZeroHash

\* the journal index under which j stores the hash of tx
IndexOf(j, tx) == CHOOSE i \in {r[1] : r \in j.journal} : MapGet(j.journal, i) = Hash(tx)

\* C19: the transactions drain_transactions has returned, followed by those
\* still on the queue, are committed transactions, each listed once and in
\* commit order, and every committed transaction is among them or is about to
\* be registered.
C19_DrainInCommitOrder ==
    LET seq == drained \o primary.transactions
        hashes == {r[2] : r \in primary.journal}
    IN  /\ \A i \in 1..Len(seq) : Hash(seq[i]) \in hashes
        /\ \A i \in 1..Len(seq), k \in 1..Len(seq) :
              i < k => IndexOf(primary, seq[i]) < IndexOf(primary, seq[k])
        /\ {Hash(tx) : tx \in SeqToSet(seq) \cup pending} = hashes

----------------------------------------------------------------------------
(* Properties of the RedbKV transactions *)

\* C20: while a read transaction is open, count, get and range and their
\* multimap variants through it return what they returned on the handle when
\* the read transaction was opened, whatever was committed since.
C20_ReadTxKeepsItsSnapshot ==
    rtx.open => \A c \in KvReads : RtxRead(db, rtx, c).out = opened[c]

\* a read transaction was opened before a write that has committed: a count,
\* a get and a range on the handle see the write, and the read transaction
\* has opened both of its tables
C20_Witness ==
    /\ rtx.open
    /\ rtx.tables # {} /\ rtx.multimap_tables # {}
    /\ \E c \in KvReads :
          /\ c.op \in {"count", "count_multimap"}
          /\ HandleRead(db, c).ok /\ HandleRead(db, c).out # opened[c]
    /\ \E c \in KvReads :
          /\ c.op \in {"get", "get_multimap"}
          /\ HandleRead(db, c).ok /\ HandleRead(db, c).out # opened[c]
    /\ \E c \in KvReads :
          /\ c.op \in {"range", "range_multimap"}
          /\ HandleRead(db, c).ok /\ HandleRead(db, c).out # opened[c]

\* C21: after a write on the handle returned, a read on the handle sees it:
\* an inserted value is the one get returns, a removed key has no value, a
\* cleared table counts 0 (and likewise for the multimap methods).
C21_HandleWriteIsCommitted ==
    LET c == klast.call
        get == HandleRead(db, KvCall("get", "t", c.key, << >>, NoRange)).out
        count == HandleRead(db, KvCall("count", "t", << >>, << >>, NoRange)).out
        get_multimap ==
            HandleRead(db, KvCall("get_multimap", "m", c.key, << >>, NoRange)).out
        count_multimap ==
            HandleRead(db, KvCall("count_multimap", "m", << >>, << >>,
                                  NoRange)).out
    IN  (klast.surface = "handle" /\ c \in KvWrites) =>
            CASE c.op = "insert" -> get = << c.value >>
              [] c.op = "remove" -> get = << >>
              [] c.op = "clear" -> count = << 0 >>
              [] c.op = "insert_multimap" ->
                     << c.key, c.value >> \in SeqToSet(get_multimap)
              [] c.op = "remove_multimap" ->
                     << c.key, c.value >> \notin SeqToSet(get_multimap)
              [] c.op = "remove_all_multimap" -> get_multimap = << >>
              [] OTHER -> count_multimap = << 0 >>

\* C22: while a write transaction is alive, nothing it writes shows in a read
\* on the handle or through a read transaction; dropping it changes no read
\* either; when it commits, the reads on the handle and through a read
\* transaction begun afterwards return what the write transaction itself
\* read, and a read transaction begun earlier still returns what it did.
C22_WriteVisibleOnlyAfterCommit ==
    [][LET commit == wtx.active /\ ~wtx'.active /\ Len(db') = Len(db) + 1 IN
       /\ (wtx.active /\ ~commit) =>
              \A c \in KvReads : HandleRead(db', c) = HandleRead(db, c)
       /\ commit =>
              \A c \in KvReads :
                  /\ HandleRead(db', c).out = WtxRead(wtx.tables, c).out
                  /\ RtxRead(db', ReadTx(db'), c).out = WtxRead(wtx.tables, c).out
       /\ (wtx.active /\ rtx.open /\ rtx'.open) =>
              \A c \in KvReads :
                  RtxRead(db', rtx', c).out = RtxRead(db, rtx, c).out]_vars

\* a write transaction holds a write no read on the handle returns, after an
\* earlier write transaction committed one that they do return, and a read
\* transaction is open
C22_Witness ==
    /\ wtx.active /\ rtx.open /\ Len(db) > 1
    /\ \E c \in KvReads :
          HandleRead(db, c).out # RtxRead(InMemory, NoReadTx, c).out
    /\ \E c \in KvReads :
          HandleRead(db, c).out # WtxRead(wtx.tables, c).out

\* C23: a read of a table that does not exist returns 0 for a count, None for
\* a get and nothing for a range, and no error, on the handle, through the
\* read transaction and through the write transaction.
C23_MissingTableReadsAsEmpty ==
    \A c \in KvReads :
        LET empty == IF c.op \in {"count", "count_multimap"} THEN << 0 >>
                     ELSE << >>
        IN  /\ ~db[Len(db)][c.table].exists =>
                   HandleRead(db, c) = [ok |-> TRUE, out |-> empty]
            /\ (rtx.open /\ ~Snapshot(db, rtx.read)[c.table].exists) =>
                   RtxRead(db, rtx, c).out = empty
            /\ (wtx.active /\ ~wtx.tables[c.table].exists) =>
                   WtxRead(wtx.tables, c).out = empty

----------------------------------------------------------------------------
(* Properties of find_many's order, the key encoding and the declarations *)

\* C24: the documents find_many returns are in ascending order of their key
\* in the index the scan used, and for equal keys of a non-unique index in
\* ascending order of their primary key.
C24_FindManyInIndexKeyOrder ==
    (last.op = "find_many" /\ last.ok) =>
        LET s == Schemas[schema]
            index == BestIndex(s, IndexFields(s, last.query))
            key(doc) == Extract(index.field_names, doc)
            pk(doc) == Extract(s.primary_key, doc)
        IN  \A i \in 1..Len(last.out), k \in 1..Len(last.out) :
                i < k => \/ LexLess(key(last.out[i]), key(last.out[k]))
                         \/ /\ key(last.out[i]) = key(last.out[k])
                            /\ ~index.unique
                            /\ LexLess(pk(last.out[i]), pk(last.out[k]))

\* find_many returned two documents whose order by index key is the reverse of
\* their order by primary key, and two documents with one key of a non-unique
\* index
C24_Witness ==
    /\ last.op = "find_many" /\ last.ok /\ Len(last.out) = 2
    /\ LET s == Schemas[schema]
           index == BestIndex(s, IndexFields(s, last.query))
           key(doc) == Extract(index.field_names, doc)
           pk(doc) == Extract(s.primary_key, doc)
       IN  /\ ~index.unique
           /\ \/ LexLess(pk(last.out[2]), pk(last.out[1]))
              \/ key(last.out[1]) = key(last.out[2])

\* the order of two values of one encodable type (Ord of the type): numbers
\* by size, FALSE before TRUE, strings and arrays byte by byte, None before
\* every Some
RECURSIVE ValueLess(_, _)
ValueLess(x, y) ==
    CASE Head(x.type) = "option" ->
             /\ y.v # << >>
             /\ (x.v = << >> \/ ValueLess(x.v[1], y.v[1]))
      [] Head(x.type) \in {"String", "array"} -> LexLess(x.v, y.v)
      [] Head(x.type) = "bool" -> ~x.v /\ y.v
      [] Head(x.type) \in {"u8", "u16"} -> x.v < y.v
      [] OTHER -> \E i \in 1..Len(x.v) :
                      /\ x.v[i] < y.v[i]
                      /\ \A j \in (i + 1)..Len(x.v) : x.v[j] = y.v[j]

\* C25: for two values x, y of one encodable type, serialize_lex(x) compares
\* with serialize_lex(y) byte-lexicographically (less, equal, greater) as x
\* compares with y
C25_SerializeLexKeepsOrder ==
    (pure.fn = "serialize_lex" /\ pure.done) =>
        /\ LexLess(pure.out[1], pure.out[2])
               <=> ValueLess(pure.args[1], pure.args[2])
        /\ pure.out[1] = pure.out[2] <=> pure.args[1] = pure.args[2]
        /\ LexLess(pure.out[2], pure.out[1])
               <=> ValueLess(pure.args[2], pure.args[1])

\* two strings were encoded, the first a prefix of the second, which goes on
\* with the character U+0000
C25_Witness ==
    /\ pure.fn = "serialize_lex"
    /\ pure.done
    /\ pure.args[1] = Typed(<< "String" >>, << 97 >>)
    /\ pure.args[2] = Typed(<< "String" >>, << 97, 0 >>)
    /\ LexLess(pure.out[1], pure.out[2])

\* every table a declaration resolves to: the table of each collection, of
\* its primary index and of each of its indices
DeclaredTables(decl) ==
    UNION {{[collection |-> n, index |-> 0, name |-> decl[n].name],
            [collection |-> n, index |-> -1,
             name |-> TableName(PrimaryKeyIndex(decl[n]))]}
              \cup {[collection |-> n, index |-> i,
                     name |-> TableName(SecondaryIndex(decl[n], i))] :
                        i \in 1..Len(decl[n].indices)} : n \in 1..Len(decl)}

\* C26: a database that opened has pairwise distinct table names across all
\* its collections and indexes (opening fails when two indexes of one
\* collection, or two collections, resolve to one table name); a collection
\* and its own primary index may share their table
C26_OpenedTablesAreDistinct ==
    (pure.fn = "in_memory" /\ pure.done /\ pure.out[1].ok) =>
        \A t, u \in DeclaredTables(pure.args[1]) :
            (t.name = u.name /\ t # u) =>
                /\ t.collection = u.collection
                /\ {t.index, u.index} = {0, -1}

\* a database that opened has pairwise distinct table names across its
\* collection tables and the tables of the indices given to add_index
AddedTablesAreDistinct ==
    (pure.fn = "in_memory" /\ pure.done /\ pure.out[1].ok) =>
        \A t, u \in DeclaredTables(pure.args[1]) :
            (t.name = u.name /\ t # u) => -1 \in {t.index, u.index}

\* C27: the primary index's table name equals the collection name: after an
\* insert the table the primary index scans holds the document that was
\* inserted, in full, under its primary key
C27_PrimaryIndexIsTheCollectionTable ==
    (last.op = "insert" /\ last.ok) =>
        LET s == Schemas[schema]
            index == PrimaryKeyIndex(s)
        IN  /\ TableName(index) = s.name
            /\ index.full_docs
            /\ << Extract(s.primary_key, last.doc), SerializeDoc(last.doc) >>
                   \in kv[TableName(index)].rows

\* the rows of the secondary index tables of the collection being rebuilt
IndexEntries(tables) ==
    [i \in 1..Len(rebuild.s.indices) |->
        tables[TableName(SecondaryIndex(rebuild.s, i))].rows]

\* C28: a rebuild_indices that returned Ok left every secondary index with
\* the entries it had before, and every find_many returns what it returned
\* before the rebuild
C28_RebuildKeepsIndexEntries ==
    (rebuild.pc = "returned" /\ last.op = "rebuild_indices" /\ last.ok) =>
        /\ IndexEntries(kv) = IndexEntries(rebuild.before)
        /\ \A q \in Queries :
               FindMany(kv, rebuild.s, q) = FindMany(rebuild.before, rebuild.s, q)

\* C29: the clearing and the re-insertion are one write transaction: while
\* a rebuild runs, and after one that failed, the committed secondary
\* indexes are the ones from before the rebuild, and so is every find_many
\* result a reader got meanwhile
C29_RebuildIsOneTransaction ==
    /\ (rebuild.pc \in {"scan", "row"} \/ (last.op = "rebuild_indices" /\ ~last.ok))
           => IndexEntries(kv) = IndexEntries(rebuild.before)
    /\ (rebuild.pc \in {"scan", "row"} /\ last.op = "find_many")
           => last.out = FindMany(rebuild.before, rebuild.s, last.query).out

\* C30: a find_many whose query has an In parameter on a field of the index
\* it selects completes without a panic and returns exactly the stored
\* documents whose field value is in the list
C30_InQueryAnswered ==
    LET s == Schemas[schema]
        q == last.query
    IN  (/\ last.op = "find_many"
         /\ HasBestIndex(s)
         /\ \E f \in SeqToSet(BestIndex(s, IndexFields(s, q)).field_names) :
                q[f].kind = "In")
            => /\ last.ok
               /\ {last.out[i] : i \in 1..Len(last.out)}
                      = {d \in StoredDocs(kv, s) : Matches(d, q)}

----------------------------------------------------------------------------
(* Properties of the planner, the score, the journaled operations and the keys *)

\* C31: a find_many with Eq on every field of an index plans, for that index,
\* the range from Included(K) to Included(K ++ 0x01) around the compound key
\* K of the Eq values, not the whole table
C31_EqOnEveryFieldIsBounded ==
    \A i \in 1..Len(Schemas[schema].indices) :
        LET index == SecondaryIndex(Schemas[schema], i)
            q == last.query
            K == Extract(index.field_names, [f \in Fields |-> q[f].v])
            plan == Plan(index, IndexFields(Schemas[schema], q))
        IN  (/\ last.op = "find_many"
             /\ \A f \in SeqToSet(index.field_names) : q[f].kind = "Eq")
                => /\ plan.min_bound = IncludedKey(K)
                   /\ plan.max_bound = IncludedKey(AppendUpperInclusiveByte(K))

\* the kinds of the parameters of the fields of the index that was scored
ScoredKinds == [i \in 1..Len(pure.args[1]) |-> pure.args[1][i].kind]

\* the first field that the query does not constrain and that is not
\* fixed-width, 0 when there is none
FirstOpenField ==
    LET fields == pure.args[1]
        open == {i \in 1..Len(fields) :
                    fields[i].kind = "None" /\ ~fields[i].fixed_width}
    IN  IF open = {} THEN 0 ELSE CHOOSE i \in open : \A j \in open : i <= j

\* C32: query_compat stops at the first unconstrained field that is not
\* fixed-width and clears is_full_prefix: the score is the score of the fields
\* before it without the full-prefix multiplier, and 0 when it is the first field
C32_StopsAtOpenVariableWidthField ==
    (pure.fn = "query_compat" /\ pure.done /\ FirstOpenField > 0) =>
        /\ ~pure.out[1].is_full_prefix
        /\ pure.out[1].score =
               CompatUsize(SubSeq(ScoredKinds, 1, FirstOpenField - 1), 1,
                           [score |-> UsizeZero, is_full_prefix |-> TRUE,
                            panic |-> FALSE, wrapped |-> FALSE], TRUE).score
        /\ FirstOpenField = 1 => pure.out[1].score = UsizeZero

\* C33: query_compat neither panics nor wraps, whatever the number of fields
\* and the query: the +1 and the multiplications stop at the maximum value
C33_ScoreSaturates ==
    (pure.fn = "query_compat" /\ pure.done) =>
        /\ ~pure.out[1].panic
        /\ ~pure.out[1].wrapped


----------------------------------------------------------------------------
(* Calls on a journal and on its ActiveTransaction, the failing ones included *)

\* the journaled operations a caller can ask for
CallKeys == {<< 1 >>, << 2 >>}
TxCalls ==
    {OpOpenTable(t) : t \in JTables}
        \cup {OpInsert(t, k, v) : t \in JTables, k \in CallKeys, v \in JValues}
        \cup {OpRemove(t, k) : t \in JTables, k \in CallKeys}
        \cup {OpRenameTable(old, new) : old \in JTables, new \in JTables}
        \cup {OpDeleteTable(t) : t \in JTables}

\* the function that journals the operation
CallName(o) ==
    CASE o.op = "OpenTable" -> "open_table"
      [] o.op = "Insert" -> "insert_bytes"
      [] o.op = "Remove" -> "remove_bytes"
      [] o.op = "RenameTable" -> "rename_table"
      [] o.op = "DeleteTable" -> "delete_table"
      [] OTHER -> "commit"

\* whether redb carries out the mutation of operation o in the write
\* transaction of a; fault is a storage error
Mutates(a, o, fault) ==
    CASE o.op = "OpenTable" -> CanOpenTable(a, o.table)
      [] o.op \in {"Insert", "Remove"} -> CanWrite(a, o.table) /\ ~fault
      [] o.op = "RenameTable" -> CanRenameTable(a, o.table, o.new)
      [] o.op = "DeleteTable" -> CanDeleteTable(a, o.table)
      [] OTHER -> FALSE

\* the ActiveTransaction after the mutation and the send of o
Mutated(a, o) ==
    CASE o.op = "OpenTable" -> TxOpenTable(a, o.table)
      [] o.op = "Insert" -> TxInsertBytes(a, o.table, o.key, o.value)
      [] o.op = "Remove" -> TxRemoveBytes(a, o.table, o.key)
      [] o.op = "RenameTable" -> TxRenameTable(a, o.table, o.new)
      [] o.op = "DeleteTable" -> TxDeleteTable(a, o.table)
      [] OTHER -> a

\* the error of a call that redb or active_tx refuses
CallError(a, o) ==
    IF ~a.active THEN "no active write transaction" ELSE "redb error"

\* a call that sends the operation before it asks redb
OperateSendsFirst(a, o, fault) ==
    IF Mutates(a, o, fault) THEN [ok |-> TRUE, err |-> "", a |-> Mutated(a, o)]
    ELSE [ok |-> FALSE, err |-> CallError(a, o),
          a |-> IF a.active THEN [a EXCEPT !.ops = Append(@, o)] ELSE a]

\* open_table, insert_bytes, remove_bytes, rename_table, delete_table: the
\* redb call with `?`, then operate(..)
Operate(a, o, fault) ==
    IF Mutates(a, o, fault) THEN [ok |-> TRUE, err |-> "", a |-> Mutated(a, o)]
    ELSE [ok |-> FALSE, err |-> CallError(a, o), a |-> a]

\* journal.begin_write(): a new ActiveTransaction
BeginCall ==
    /\ ~atx.active
    /\ Cardinality(primary.journal) < MaxTxs
    /\ atx' = TxNew(primary)
    /\ jlast' = [op |-> "begin_write", tx |-> NoJournalTx, ok |-> TRUE, err |-> "",
                 index_before |-> GetState(primary).next_tx_index]
    /\ UNCHANGED << primary, replica, pending, drained >>

\* one call of a journaled operation on the ActiveTransaction, finished or
\* not; insert_bytes and remove_bytes need a handle, which borrows a live one
OperateCall(names) ==
    \E o \in TxCalls, fault \in BOOLEAN :
        /\ CallName(o) \in names
        /\ jlast.op # "open"
        /\ o.op \in {"Insert", "Remove"} => o.table \in atx.open
        /\ Len(atx.ops) < MaxOps
        /\ LET r == Operate(atx, o, fault) IN
            /\ atx' = r.a
            /\ jlast' = [op |-> CallName(o),
                         tx |-> [NoJournalTx EXCEPT !.operations = << o >>],
                         ok |-> r.ok, err |-> r.err,
                         index_before |-> GetState(primary).next_tx_index]
        /\ UNCHANGED << primary, replica, pending, drained >>

\* a JournaledTable handle goes out of scope
HandleDropped ==
    \E t \in atx.open :
        /\ atx' = [atx EXCEPT !.open = @ \ {t}]
        /\ jlast' = [op |-> "drop", tx |-> NoJournalTx, ok |-> TRUE, err |-> "",
                     index_before |-> GetState(primary).next_tx_index]
        /\ UNCHANGED << primary, replica, pending, drained >>

\* tx.commit() on the ActiveTransaction, finished or not: the write
\* transaction is taken out first; a storage error drops it
CommitCall ==
    \E fault \in BOOLEAN :
        /\ jlast.op # "open"
        /\ atx.open = {}
        /\ LET r == IF fault /\ atx.active
                    THEN [ok |-> FALSE, err |-> "redb error", tx |-> NoJournalTx,
                          j |-> TxAbortJournal(primary, atx)]
                    ELSE TxCommitJournal(primary, atx)
           IN
            /\ primary' = r.j
            /\ jlast' = [op |-> "commit", tx |-> r.tx, ok |-> r.ok, err |-> r.err,
                         index_before |-> GetState(primary).next_tx_index]
        /\ atx' = NoTx
        /\ UNCHANGED << replica, pending, drained >>

\* tx.abort() on the ActiveTransaction, finished or not
AbortCall ==
    /\ jlast.op # "open"
    /\ atx.open = {}
    /\ atx' = NoTx
    /\ primary' = TxAbortJournal(primary, atx)
    /\ jlast' = [op |-> "abort", tx |-> [NoJournalTx EXCEPT !.operations = atx.ops],
                 ok |-> TRUE, err |-> "",
                 index_before |-> GetState(primary).next_tx_index]
    /\ UNCHANGED << replica, pending, drained >>

\* read.list_tables(): the user tables by name
ListTables(j) == SelectSeq(<< "t", "u" >>, LAMBDA t : j.tables[t].exists)

\* a flatten that leaves the entries of the tables out
FlattenTablesOnly(j) ==
    [last_tx_hash |-> ZeroHash,
     operations |-> [i \in 1..Len(ListTables(j)) |-> OpOpenTable(ListTables(j)[i])]
                        \o << OpCommit >>]

\* the loop of flatten over the tables: OpenTable, then one Insert for
\* every entry of table.range(..)
RECURSIVE FlattenFrom(_, _, _, _)
FlattenFrom(j, tables, i, operations) ==
    IF i > Len(tables) THEN operations
    ELSE LET table_name == tables[i]
             range == SortRows(j.tables[table_name].rows)
             inserts == [n \in 1..Len(range) |->
                            OpInsert(table_name, range[n][1], range[n][2])]
         IN  FlattenFrom(j, tables, i + 1,
                         operations \o << OpOpenTable(table_name) >> \o inserts)

\* Journal::flatten, on the committed database
Flatten(j) ==
    [last_tx_hash |-> ZeroHash,
     operations |-> Append(FlattenFrom(j, ListTables(j), 1, << >>), OpCommit)]

\* journal.flatten(), and append_tx of the result on Journal::in_memory(None)
FlattenCall ==
    LET tx == Flatten(primary)
        r == AppendTx(EmptyJournal, tx)
    IN  /\ replica' = r.j
        /\ jlast' = [op |-> "flatten", tx |-> tx, ok |-> r.ok, err |-> r.err,
                     index_before |-> 0]
        /\ UNCHANGED << primary, atx, pending, drained >>

ONext ==
    \/ (BeginCall /\ UNCHANGED << dbVars, kvVars, pureVars, cache >>)
    \/ (OperateCall({"open_table"}) /\ UNCHANGED << dbVars, kvVars, pureVars, cache >>)
    \/ (OperateCall({"insert_bytes"}) /\ UNCHANGED << dbVars, kvVars, pureVars, cache >>)
    \/ (OperateCall({"remove_bytes"}) /\ UNCHANGED << dbVars, kvVars, pureVars, cache >>)
    \/ (OperateCall({"rename_table"}) /\ UNCHANGED << dbVars, kvVars, pureVars, cache >>)
    \/ (OperateCall({"delete_table"}) /\ UNCHANGED << dbVars, kvVars, pureVars, cache >>)
    \/ (HandleDropped /\ UNCHANGED << dbVars, kvVars, pureVars, cache >>)
    \/ (CommitCall /\ UNCHANGED << dbVars, kvVars, pureVars, cache >>)
    \/ (AbortCall /\ UNCHANGED << dbVars, kvVars, pureVars, cache >>)
    \/ (FlattenCall /\ UNCHANGED << dbVars, kvVars, pureVars, cache >>)

OpSpec == JInit /\ [][ONext]_vars

JournaledCalls == {"open_table", "insert_bytes", "remove_bytes", "rename_table", "delete_table"}

\* C34: a journaled insert, remove, rename_table, delete_table or open_table
\* appends its operation to the queue of the transaction exactly when the
\* mutation succeeded, and a failed call returns the error and leaves queue and
\* tables as they were; so the queued operations, applied to the tables the
\* transaction began with, give the tables of the transaction
C34_Step ==
    jlast'.op \in JournaledCalls =>
        LET o == jlast'.tx.operations[1] IN
        IF jlast'.ok
        THEN /\ atx'.ops = Append(atx.ops, o)
             /\ atx'.tables = ApplyOperation(atx.tables, o)
        ELSE /\ jlast'.err # ""
             /\ atx'.ops = atx.ops
             /\ atx'.tables = atx.tables
C34_OpQueuedOnlyAfterMutation ==
    [][C34_Step /\ (atx'.active =>
                        atx'.tables = ApplyOperations(primary'.tables, atx'.ops, 1))]_vars
C34_Witness ==
    /\ jlast.op = "rename_table"
    /\ ~jlast.ok
    /\ atx.active
    /\ Len(atx.ops) = 1
    /\ atx.open = {}

\* C39: once commit or abort was called on an ActiveTransaction, also a commit
\* that returned an error, a later commit, open_table, rename_table or
\* delete_table on it fails with 'no active write transaction' and changes
\* neither the tables, the journal nor the queue
C39_Step ==
    (/\ ~atx.active
     /\ jlast.op \notin {"open", "begin_write"}
     /\ jlast'.op \in {"commit", "open_table", "rename_table", "delete_table"}) =>
        /\ ~jlast'.ok
        /\ jlast'.err = "no active write transaction"
        /\ primary' = primary
        /\ atx' = atx
C39_FinishesAtMostOnce == [][C39_Step]_vars
C39_Witness ==
    /\ jlast.op = "commit"
    /\ ~jlast.ok
    /\ jlast.err = "no active write transaction"
    /\ Cardinality(primary.journal) = 1
    /\ primary.transactions # << >>

\* C35: the transaction flatten returns has the zero last_tx_hash, names only
\* user tables and ends with Commit; append_tx accepts it on an empty journal,
\* and the journal after has the entries of every table of the flattened one
C35_Step ==
    jlast'.op = "flatten" =>
        LET operations == jlast'.tx.operations IN
        /\ jlast'.tx.last_tx_hash = ZeroHash
        /\ operations[Len(operations)] = OpCommit
        /\ \A i \in 1..(Len(operations) - 1) :
                operations[i].op \in {"OpenTable", "Insert"}
                    /\ operations[i].table \in JTables
        /\ jlast'.ok
        /\ GetState(replica').next_tx_index = 1
        /\ \A t \in JTables :
                /\ replica'.tables[t].exists = primary.tables[t].exists
                /\ replica'.tables[t].rows = primary.tables[t].rows
C35_FlattenReplaysOnEmptyJournal == [][C35_Step]_vars
C35_Witness ==
    /\ jlast.op = "flatten"
    /\ jlast.ok
    /\ Len(jlast.tx.operations) = 4
    /\ Cardinality(replica.tables["t"].rows) = 2
    /\ Cardinality(primary.journal) = 2

----------------------------------------------------------------------------
(* The cache of opened tables of a read transaction *)

MaxCacheCalls == 3
CacheNames == {"a", "b"}
CacheFiles == {"kv_redb/tx.rs", "kv_redb.rs"}

\* the editions the crate can be built with: up to 2021 the temporaries of
\* the scrutinee of an `if let` live to the end of its else block, from 2024
\* they are dropped before it
Editions == {2021, 2024}

\* the tables a read transaction can see: "b" is missing
CacheSnapshots == {{<< "a", rows >>} : rows \in {{}, {<< << 1 >>, << 7 >> >>}}}

\* self.read.open_table(tabledef(name)): a handle on the table of the snapshot
OpenReadOnlyTable(c, name) == [name |-> name, rows |-> MapGet(c.snapshot, name)]

\* whether the guard of tables.read() is still alive after a miss
GuardOutlivesLookup(c) == c.file = "kv_redb.rs" /\ c.edition < 2024

\* kv.read_tx(): a read transaction with an empty cache
CacheReadTx ==
    \E file \in CacheFiles, edition \in Editions, snapshot \in CacheSnapshots :
        /\ cache.file = ""
        /\ cache' = [cache EXCEPT !.file = file, !.edition = edition,
                                  !.snapshot = snapshot]

\* thread t calls read_table(name)
ReadTableCall(t) ==
    \E name \in CacheNames :
        /\ cache.file # ""
        /\ cache.pc[t] = "idle"
        /\ cache.calls < MaxCacheCalls
        /\ cache' = [cache EXCEPT !.pc[t] = "lookup", !.name[t] = name,
                                  !.out[t] = << >>, !.calls = @ + 1]

\* tables.read().unwrap().get(name): a hit returns the cached handle
CacheLookup(t) ==
    LET name == cache.name[t] IN
    /\ cache.pc[t] = "lookup"
    /\ IF MapHas(cache.tables, name)
       THEN cache' = [cache EXCEPT
                        !.pc[t] = "idle",
                        !.out[t] = << "cache", MapGet(cache.tables, name) >>]
       ELSE cache' = [cache EXCEPT
                        !.pc[t] = "open",
                        !.readers = IF GuardOutlivesLookup(cache)
                                    THEN @ \cup {t} ELSE @]

\* read.open_table(..) after a miss: a missing table is Ok(None) in tx.rs and
\* an error in kv_redb.rs; the return drops the guard
CacheOpen(t) ==
    LET name == cache.name[t] IN
    /\ cache.pc[t] = "open"
    /\ IF MapHas(cache.snapshot, name)
       THEN cache' = [cache EXCEPT
                        !.pc[t] = "insert",
                        !.out[t] = << "open", OpenReadOnlyTable(cache, name) >>]
       ELSE cache' = [cache EXCEPT
                        !.pc[t] = "idle",
                        !.readers = @ \ {t},
                        !.out[t] = IF cache.file = "kv_redb.rs"
                                   THEN << "TableDoesNotExist" >> ELSE << "None" >>]

\* tables.write().unwrap().insert(name, table.clone()): waits while a read
\* guard is alive
CacheInsert(t) ==
    /\ cache.pc[t] = "insert"
    /\ cache.readers = {}
    /\ cache' = [cache EXCEPT
                    !.pc[t] = "idle",
                    !.tables = MapInsert(@, cache.name[t], cache.out[t][2])]

\* RwLock::write on a lock the thread itself holds for reading may panic
\* instead of waiting
CacheWritePanics(t) ==
    /\ cache.pc[t] = "insert"
    /\ t \in cache.readers
    /\ cache' = [cache EXCEPT !.pc[t] = "panicked", !.readers = @ \ {t},
                              !.out[t] = << "panic" >>]

\* a step of the read_table call of thread t
ReadTableStep(t) ==
    /\ CacheLookup(t) \/ CacheOpen(t) \/ CacheInsert(t)
    /\ UNCHANGED << dbVars, journalVars, kvVars, pureVars >>

CNext ==
    \/ (CacheReadTx /\ UNCHANGED << dbVars, journalVars, kvVars, pureVars >>)
    \/ \E t \in CacheThreads :
        \/ (ReadTableCall(t) /\ UNCHANGED << dbVars, journalVars, kvVars, pureVars >>)
        \/ (CacheLookup(t) /\ UNCHANGED << dbVars, journalVars, kvVars, pureVars >>)
        \/ (CacheOpen(t) /\ UNCHANGED << dbVars, journalVars, kvVars, pureVars >>)
        \/ (CacheInsert(t) /\ UNCHANGED << dbVars, journalVars, kvVars, pureVars >>)
        \/ (CacheWritePanics(t) /\ UNCHANGED << dbVars, journalVars, kvVars, pureVars >>)

\* every thread that can take a step of its call takes one in the end
CacheSpec == JInit /\ [][CNext]_vars /\ \A t \in CacheThreads : WF_vars(ReadTableStep(t))

\* C37: under every interleaving of read_table calls from several threads
\* every call returns, and a returned handle gives the rows a freshly opened
\* one gives, whether it came from the cache or not
C37_ReturnedHandlesAreFresh ==
    \A t \in CacheThreads :
        (cache.pc[t] = "idle" /\ Len(cache.out[t]) = 2) =>
            cache.out[t][2] = OpenReadOnlyTable(cache, cache.name[t])
TxReadTableReturns ==
    \A t \in CacheThreads :
        (cache.file = "kv_redb/tx.rs" /\ cache.pc[t] # "idle") ~> (cache.pc[t] = "idle")

\* so do those of RedbTransaction::read_table in a build of edition 2024
Edition2024ReadTableReturns ==
    \A t \in CacheThreads :
        (cache.edition = 2024 /\ cache.pc[t] # "idle") ~> (cache.pc[t] = "idle")

\* C38: two documents get the same compound key only if all their key fields
\* are equal, for fixed-width and String fields in every combination, the
\* strings with the byte 0x00 included
C38_CompoundKeyIsInjective ==
    (pure.fn = "serialize" /\ pure.done) =>
        (pure.out[1] = pure.out[2] => pure.args[1] = pure.args[2])

\* a key field that is a String or an Option<String> with the byte 0x00
HasNul(fields) ==
    \E i \in 1..Len(fields) :
        LET bytes == SerializeLex(fields[i]) IN
        /\ fields[i].type[Len(fields[i].type)] = "String"
        /\ \E n \in 1..(Len(bytes) - 1) : bytes[n] = 0 /\ (n > 1 \/ Len(fields[i].type) = 1)

\* without the byte 0x00 in a string the compound key is injective
KeysWithoutNulAreInjective ==
    (pure.fn = "serialize" /\ pure.done
        /\ ~HasNul(pure.args[1]) /\ ~HasNul(pure.args[2])) =>
        (pure.out[1] = pure.out[2] => pure.args[1] = pure.args[2])

====
